---- MODULE Spec2Model ----
(***************************************************************************)
(* Verification model of the MaxScale core:                                *)
(*   - RoutingWorker persistent connection pool (routingworker.cc)         *)
(*   - MariaDBBackendConnection protocol and reply state machines          *)
(*     (mariadb_backend.cc)                                                *)
(*   - ClustrixMonitor / ClustrixNode membership and health checks         *)
(*     (clustrixmonitor.cc, clustrixnode.hh)                               *)
(*   - shared listener dispatch of the workers (routingworker.cc)          *)
(*   - event loop of a worker: zombies and rebalancing (routingworker.cc)  *)
(*                                                                         *)
(* Sixteen specifications share the module:                                *)
(*   Spec       one worker, one server, its pool and the backend           *)
(*              connections of the sessions of that worker                 *)
(*   SpecConn   one backend connection of that worker with all that its    *)
(*              session, its router and its backend can do to it           *)
(*   SpecReuse  one call of reuse_connection on a connection in any of     *)
(*              the states a connection object can be in                   *)
(*   SpecReply  one backend connection in state ROUTING reading a reply    *)
(*              byte stream through process_packets                        *)
(*   SpecMon    the Clustrix monitor thread                                *)
(*   SpecAccept the workers and the epoll instance they share for the      *)
(*              listening sockets, the first worker being scheduled fairly *)
(*   SpecStatus the status bits of one server under set_status and         *)
(*              clear_status                                               *)
(*   SpecSetup  one backend connection from authentication through the     *)
(*              connection init queries, the worker thread running         *)
(*   SpecTick   the event loop of one worker: the events of an epoll_wait  *)
(*              and the epoll_tick that follows them                       *)
(*   SpecBalance   one call of balance_workers on the loads of the workers *)
(*   SpecShutdown  one worker from start_shutdown to its exit              *)
(*   SpecBoot   the persisted tables over starts of the monitor with       *)
(*              configurations that may differ                             *)
(*   SpecHub    one call of choose_hub                                     *)
(*   SpecRound  the ticks of the monitor and its health check rounds with  *)
(*              several nodes                                              *)
(*   SpecRace   the status of one server written by two threads            *)
(*   SpecOps    the monitor with the commands softfail and unsoftfail      *)
(* Variables that a specification does not use keep their initial value.   *)
(***************************************************************************)
EXTENDS Integers, Sequences, FiniteSets, TLC

----------------------------------------------------------------------------
(* Bounds of the model *)

NumConns == 2        \* backend DCBs that can exist at the same time
MaxCmds == 2         \* packets a session writes to one backend connection
MaxTime == 2         \* seconds of wall clock that are explored
MaxPings == 1        \* keepalive pings under way on one connection
MaxStale == 1        \* unanswered packets on a connection that is taken from the pool
PoolMax == 1         \* configured persistpoolmax of the server
PoolMaxTime == 1     \* configured persistmaxtime of the server (seconds)

(* Program constants *)

MYSQL_HEADER_LEN == 4
MYSQL_EOF_PACKET_LEN == 9
GW_MYSQL_MAX_PACKET_LEN == 16777215

Conns == 1..NumConns

----------------------------------------------------------------------------
(* Packets.                                                                *)
(* A command packet (client -> backend):                                   *)
(*   cmd        command byte, by name                                      *)
(*   len        payload length                                             *)
(*   ignorable  GWBUF_TYPE_IGNORABLE set on the buffer                     *)
(*   flag       COM_STMT_EXECUTE flag byte                                 *)
(*   id, own    bookkeeping only: number of the packet within its session, *)
(*              and whether the session that wrote it is the current one   *)
(*              ("cur"), an earlier one ("old") or the proxy ("syn")       *)
(* A reply packet (backend -> proxy):                                      *)
(*   cmd        first payload byte: "OK" 0x00, "ERR" 0xff, "FE" 0xfe,      *)
(*              "LOCAL_INFILE" 0xfb, "DATA" anything else                  *)
(*   len        payload length                                             *)
(*   more       SERVER_MORE_RESULTS_EXIST in the status flags              *)
(*   ncol,nprm  column count / parameter count carried by the packet       *)
(*   plugin     plugin named by an AuthSwitchRequest is the default one    *)
(*   of, id, own  bookkeeping: the command the packet answers              *)
(***************************************************************************)

CmdPkt(cmd, len, ign, flag, id, own) ==
    [cmd |-> cmd, len |-> len, ignorable |-> ign, flag |-> flag, id |-> id, own |-> own]

ReplyPkt(cmd, len, more, ncol, nprm, plugin, c) ==
    [cmd |-> cmd, len |-> len, more |-> more, ncol |-> ncol, nprm |-> nprm,
     plugin |-> plugin, of |-> c.cmd, id |-> c.id, own |-> c.own]

\* modutil_create_ignorable_ping
IgnorablePing == CmdPkt("COM_PING", 1, TRUE, 0, 0, "syn")

\* create_change_user_packet
ChangeUserPacket == CmdPkt("COM_CHANGE_USER", 30, FALSE, 0, 0, "syn")

\* send_mysql_native_password_response
NativePasswordResponse == CmdPkt("AUTH_RESPONSE", 20, FALSE, 0, 0, "syn")

\* total number of bytes of a sequence of complete packets
RECURSIVE BytesOf(_)
BytesOf(pkts) ==
    IF pkts = <<>> THEN 0
    ELSE MYSQL_HEADER_LEN + Head(pkts).len + BytesOf(Tail(pkts))

\* the empty read queue of a DCB
NoData == [pkts |-> <<>>, nbytes |-> 0]

----------------------------------------------------------------------------
(* A backend connection: the BackendDCB and its MariaDBBackendConnection.  *)

NewConn ==
    [ \* DCB
      exists |-> FALSE,            \* the DCB object is allocated
      open |-> FALSE,              \* DCB::close has not been called
      dcb_state |-> "CREATED",     \* DCB::State
      hanged_up |-> FALSE,         \* DCB::hanged_up()
      handler |-> "protocol",      \* "protocol" or "pool" (RoutingWorker::DCBHandler)
      has_session |-> FALSE,       \* pDcb->session() != nullptr
      hup_event |-> FALSE,         \* trigger_hangup_event() pending
      readq |-> NoData,            \* bytes received and not yet consumed
      out |-> <<>>,                \* packets written to the backend, unanswered
      \* MariaDBBackendConnection
      m_state |-> "HANDSHAKING",
      m_ignore_replies |-> 0,
      m_stored_query |-> <<>>,
      m_delayed_packets |-> <<>>,
      m_changing_user |-> FALSE,
      m_large_query |-> FALSE,
      m_skip_next |-> FALSE,
      m_opening_cursor |-> FALSE,
      m_num_coldefs |-> 0,
      m_ps_packets |-> 0,
      load_active |-> FALSE,       \* session_is_load_active(m_session)
      \* mxs::Reply m_reply
      reply_state |-> "DONE",
      reply_command |-> "NONE",
      reply_rows |-> 0,
      \* bookkeeping of what the session of the connection has seen
      nwritten |-> 0,              \* packets the current session has written
      quit |-> FALSE,              \* ... the last of which was its COM_QUIT
      accepted |-> <<>>,           \* ids of its commands that write() took
      sent |-> <<>>,               \* ids of its packets that reached the backend
      reused |-> FALSE,            \* the session took the connection from the pool
      cu_pending |-> FALSE,        \* the COM_CHANGE_USER of the reuse has not been
                                   \* been answered to the end yet
      leaked |-> FALSE,            \* a reply to a synthetic packet was forwarded
      stale |-> FALSE,             \* a reply to an earlier session was forwarded
      lost |-> FALSE,              \* a reply to the session's packet was dropped
      early |-> FALSE,             \* a packet of the session was sent while cu_pending
      offered |-> FALSE,           \* session_valid_for_pool when the session closed it
      ponged |-> FALSE             \* the reply to a ping was forwarded
    ]

----------------------------------------------------------------------------
(* Reply state tracking (mariadb_backend.cc)                               *)

\* mxs_mysql_command_will_respond
command_will_respond(cmd) ==
    cmd \notin {"COM_STMT_SEND_LONG_DATA", "COM_QUIT", "COM_STMT_CLOSE"}

\* a test that takes every EOF packet for the last one
is_last_eof_whatever_status(pkt) == TRUE

\* is_last_eof: SERVER_MORE_RESULTS_EXIST is not set in the status of the EOF
is_last_eof(pkt) == ~pkt.more

\* an EOF packet: 0xfe with a payload of exactly 5 bytes
IsEofPacket(pkt) ==
    pkt.cmd = "FE" /\ pkt.len = MYSQL_EOF_PACKET_LEN - MYSQL_HEADER_LEN

\* auth_change_requested: 0xfe and the whole packet is longer than an EOF packet
auth_change_requested(pkt) ==
    pkt.cmd = "FE" /\ pkt.len + MYSQL_HEADER_LEN > MYSQL_EOF_PACKET_LEN

\* Reply::clear
reply_clear(p) ==
    [p EXCEPT !.reply_state = "DONE", !.reply_command = "NONE", !.reply_rows = 0]

\* MariaDBBackendConnection::track_query
track_query(p, b) ==
    IF p.m_changing_user THEN p
    ELSE
      LET p1 ==
            IF p.load_active
            THEN IF b.len = 0
                 THEN [p EXCEPT !.load_active = FALSE, !.reply_state = "START"]
                 ELSE p
            ELSE IF ~p.m_large_query
            THEN LET q0 == [reply_clear(p) EXCEPT !.reply_command = b.cmd]
                     q1 == IF command_will_respond(b.cmd)
                           THEN [q0 EXCEPT !.reply_state = "START"] ELSE q0
                 IN IF b.cmd = "COM_STMT_EXECUTE"
                    THEN [q1 EXCEPT !.m_opening_cursor = (b.flag # 0)]
                    ELSE IF b.cmd = "COM_STMT_FETCH"
                    THEN [q1 EXCEPT !.reply_state = "RSET_ROWS"]
                    ELSE q1
            ELSE p
      IN [p1 EXCEPT !.m_large_query = (b.len = GW_MYSQL_MAX_PACKET_LEN)]

\* MariaDBBackendConnection::process_ok_packet
process_ok_packet(p, pkt) ==
    IF ~pkt.more THEN [p EXCEPT !.reply_state = "DONE"] ELSE p

\* a count of the definitions that leaves out the EOF packets
process_ps_response_without_eof(p, pkt) ==
    LET n == pkt.ncol + pkt.nprm
    IN [p EXCEPT !.m_ps_packets = n,
                 !.reply_state = IF n = 0 THEN "DONE" ELSE "PREPARE"]

\* MariaDBBackendConnection::process_ps_response
process_ps_response(p, pkt) ==
    LET cols == IF pkt.ncol # 0 THEN pkt.ncol + 1 ELSE 0
        prms == IF pkt.nprm # 0 THEN pkt.nprm + 1 ELSE 0
        n == cols + prms
    IN [p EXCEPT !.m_ps_packets = n,
                 !.reply_state = IF n = 0 THEN "DONE" ELSE "PREPARE"]

\* MariaDBBackendConnection::process_result_start
process_result_start(p, pkt) ==
    CASE pkt.cmd = "OK" ->
           IF p.reply_command = "COM_STMT_PREPARE"
           THEN process_ps_response(p, pkt)
           ELSE process_ok_packet(p, pkt)
      [] pkt.cmd = "LOCAL_INFILE" ->
           [p EXCEPT !.load_active = TRUE, !.reply_state = "DONE"]
      [] pkt.cmd = "ERR" -> [p EXCEPT !.reply_state = "DONE"]
      [] pkt.cmd = "FE" -> p
      [] OTHER ->
           [p EXCEPT !.m_num_coldefs = pkt.ncol, !.reply_state = "RSET_COLDEF"]

\* MariaDBBackendConnection::process_reply_start
process_reply_start(p, pkt) ==
    CASE p.reply_command = "COM_BINLOG_DUMP" -> p
      [] p.reply_command = "COM_STATISTICS" -> [p EXCEPT !.reply_state = "DONE"]
      [] p.reply_command = "COM_FIELD_LIST" -> [p EXCEPT !.reply_state = "RSET_ROWS"]
      [] OTHER -> process_result_start(p, pkt)

\* MariaDBBackendConnection::process_one_packet
process_one_packet(p, pkt) ==
    CASE p.reply_state = "START" -> process_reply_start(p, pkt)
      [] p.reply_state = "DONE" -> p     \* update_error or "Unexpected result state"
      [] p.reply_state = "RSET_COLDEF" ->
           IF p.m_num_coldefs - 1 = 0
           THEN [p EXCEPT !.m_num_coldefs = 0, !.reply_state = "RSET_COLDEF_EOF"]
           ELSE [p EXCEPT !.m_num_coldefs = @ - 1]
      [] p.reply_state = "RSET_COLDEF_EOF" ->
           IF p.m_opening_cursor
           THEN [p EXCEPT !.m_opening_cursor = FALSE, !.reply_state = "DONE"]
           ELSE [p EXCEPT !.reply_state = "RSET_ROWS"]
      [] p.reply_state = "RSET_ROWS" ->
           IF IsEofPacket(pkt)
           THEN [p EXCEPT !.reply_state = IF is_last_eof(pkt) THEN "DONE" ELSE "START"]
           ELSE IF pkt.cmd = "ERR"
           THEN [p EXCEPT !.reply_state = "DONE"]
           ELSE [p EXCEPT !.reply_rows = @ + 1]
      [] p.reply_state = "PREPARE" ->
           IF p.m_ps_packets - 1 = 0
           THEN [p EXCEPT !.m_ps_packets = 0, !.reply_state = "DONE"]
           ELSE [p EXCEPT !.m_ps_packets = @ - 1]

\* a test that takes 2^24 for the length of a packet that is continued
is_large_packet_off_by_one(len) == len = GW_MYSQL_MAX_PACKET_LEN + 1

\* "len == GW_MYSQL_MAX_PACKET_LEN": the packet is continued by the next one
is_large_packet(len) == len = GW_MYSQL_MAX_PACKET_LEN

\* The loop of MariaDBBackendConnection::process_packets over a buffer of
\* nbytes bytes that holds the packets pkts back to back (the last ones
\* possibly incomplete).  Yields the connection, the complete packets that
\* were split off, for each of them whether process_one_packet was called
\* for it, and what stays in the buffer.
RECURSIVE process_packets_loop(_, _, _, _, _)
process_packets_loop(p, pkts, bytes_left, done, calls) ==
    IF pkts = <<>> \/ bytes_left < MYSQL_HEADER_LEN
         \/ bytes_left < Head(pkts).len + MYSQL_HEADER_LEN
    THEN [p |-> p, complete |-> done, processed |-> calls,
          rest |-> [pkts |-> pkts, nbytes |-> bytes_left]]
    ELSE LET pkt == Head(pkts)
             skip_next == p.m_skip_next
             p1 == [p EXCEPT !.m_skip_next = is_large_packet(pkt.len)]
             p2 == IF ~skip_next THEN process_one_packet(p1, pkt) ELSE p1
         IN process_packets_loop(p2, Tail(pkts),
                                 bytes_left - (pkt.len + MYSQL_HEADER_LEN),
                                 Append(done, pkt), Append(calls, ~skip_next))

\* MariaDBBackendConnection::process_packets / track_response
process_packets(p, buf) ==
    process_packets_loop(p, buf.pkts, buf.nbytes, <<>>, <<>>)

\* modutil_get_complete_packets: split off the complete packets, track nothing
RECURSIVE get_complete_packets_loop(_, _, _)
get_complete_packets_loop(pkts, bytes_left, done) ==
    IF pkts = <<>> \/ bytes_left < MYSQL_HEADER_LEN
         \/ bytes_left < Head(pkts).len + MYSQL_HEADER_LEN
    THEN [complete |-> done, rest |-> [pkts |-> pkts, nbytes |-> bytes_left]]
    ELSE get_complete_packets_loop(Tail(pkts),
                                   bytes_left - (Head(pkts).len + MYSQL_HEADER_LEN),
                                   Append(done, Head(pkts)))

modutil_get_complete_packets(buf) == get_complete_packets_loop(buf.pkts, buf.nbytes, <<>>)

----------------------------------------------------------------------------
(* Writing to and reading from the backend (mariadb_backend.cc)            *)

\* Server::persistent_conns_enabled
persistent_conns_enabled == PoolMax > 0

\* ids of the packets of the current session among pkts
RECURSIVE IdsOf(_)
IdsOf(pkts) ==
    IF pkts = <<>> THEN <<>>
    ELSE IF Head(pkts).own = "cur"
         THEN <<Head(pkts).id>> \o IdsOf(Tail(pkts))
         ELSE IdsOf(Tail(pkts))

\* DCB::writeq_append: the packets go out to the backend
writeq_append(p, pkts) ==
    [p EXCEPT !.out = @ \o pkts,
              !.sent = @ \o IdsOf(pkts),
              !.early = @ \/ (p.cu_pending /\ IdsOf(pkts) # <<>>)]

\* MariaDBBackendConnection::prepare_for_write
prepare_for_write(p, queue) ==
    IF ~Head(queue).ignorable THEN track_query(p, Head(queue)) ELSE p

\* MariaDBBackendConnection::send_change_user_to_backend
send_change_user_to_backend(p) ==
    [writeq_append(p, <<ChangeUserPacket>>) EXCEPT !.m_changing_user = TRUE]

\* MariaDBBackendConnection::change_user
change_user(p, queue) == send_change_user_to_backend(p)

\* MariaDBBackendConnection::handle_persistent_connection
handle_persistent_connection(p, queue) ==
    IF Head(queue).cmd = "COM_QUIT"
    THEN [p |-> [p EXCEPT !.hup_event = TRUE], rc |-> 0]
    ELSE [p |-> [p EXCEPT !.m_stored_query = @ \o queue], rc |-> 1]

\* a write that stores the packets whatever the state of the protocol
write_storing(p, queue) ==
    [p |-> [p EXCEPT !.m_delayed_packets = @ \o queue], rc |-> 1]

\* MariaDBBackendConnection::write.  queue is a chain of buffers; the
\* command byte and the buffer type are those of the first buffer.
write(p, queue) ==
    IF p.m_ignore_replies > 0 THEN handle_persistent_connection(p, queue)
    ELSE CASE p.m_state = "FAILED" -> [p |-> p, rc |-> 0]
           [] p.m_state = "ROUTING" ->
                LET cmd == Head(queue).cmd
                    p1 == prepare_for_write(p, queue)
                IN IF p1.reply_command = "COM_CHANGE_USER"
                   THEN [p |-> change_user(p1, queue), rc |-> 1]
                   ELSE IF cmd = "COM_QUIT" /\ persistent_conns_enabled
                   THEN [p |-> p1, rc |-> 1]
                   ELSE LET p2 == IF Head(queue).ignorable
                                  THEN [p1 EXCEPT !.m_ignore_replies = @ + 1]
                                  ELSE p1
                        IN [p |-> writeq_append(p2, queue), rc |-> 1]
           [] OTHER ->
                [p |-> [p EXCEPT !.m_delayed_packets = @ \o queue], rc |-> 1]

\* a test that overlooks the replies that are to be ignored
established_while_ignoring(p) ==
    p.m_state = "ROUTING" /\ p.m_stored_query = <<>>

\* MariaDBBackendConnection::established
established(p) ==
    p.m_state = "ROUTING" /\ p.m_ignore_replies = 0 /\ p.m_stored_query = <<>>

\* MariaDBBackendConnection::ping
ping(p) ==
    IF p.reply_state = "DONE" THEN write(p, <<IgnorablePing>>).p ELSE p

\* a test that overlooks the state of the DCB
qualifies_for_reuse_any_dcb(p) ==
    p.m_state = "ROUTING" /\ p.m_delayed_packets = <<>>

\* the states of the DCB and of the protocol that reuse_connection asks for
qualifies_for_reuse(p) ==
    p.dcb_state = "POLLING" /\ p.m_state = "ROUTING" /\ p.m_delayed_packets = <<>>

\* MariaDBBackendConnection::reuse_connection.  wok: writeq_append succeeds.
reuse_connection(p, wok) ==
    IF ~qualifies_for_reuse(p)
    THEN [p |-> p, rv |-> FALSE]
    ELSE LET p1 == [p EXCEPT !.m_ignore_replies = 0, !.m_stored_query = <<>>]
         IN IF wok
            THEN [p |-> [writeq_append(p1, <<ChangeUserPacket>>)
                           EXCEPT !.m_ignore_replies = @ + 1,
                                  !.reused = TRUE, !.cu_pending = TRUE],
                  rv |-> TRUE]
            ELSE [p |-> p1, rv |-> FALSE]

\* MariaDBBackendConnection::backend_write_delayqueue
backend_write_delayqueue(p, buffer) ==
    IF Head(buffer).cmd = "COM_CHANGE_USER" THEN change_user(p, buffer)
    ELSE IF Head(buffer).cmd = "COM_QUIT" /\ persistent_conns_enabled THEN p
    ELSE writeq_append(p, buffer)

\* MariaDBBackendConnection::send_delayed_packets
send_delayed_packets(p) ==
    IF p.m_delayed_packets # <<>>
    THEN LET buffer == p.m_delayed_packets
             p1 == [p EXCEPT !.m_delayed_packets = <<>>]
         IN backend_write_delayqueue(prepare_for_write(p1, buffer), buffer)
    ELSE p

\* MariaDBBackendConnection::handle_auth_change_response
handle_auth_change_response(p, reply) ==
    IF reply.plugin
    THEN [p |-> writeq_append(p, <<NativePasswordResponse>>), rv |-> TRUE]
    ELSE [p |-> p, rv |-> FALSE]

\* what the client of the session gets to see when pkts are passed to
\* m_upstream->clientReply
client_reply(p, pkts) ==
    [p EXCEPT
       !.leaked = @ \/ (\E i \in 1..Len(pkts) :
                          pkts[i].of \in {"COM_CHANGE_USER", "AUTH_RESPONSE"}),
       !.stale = @ \/ (\E i \in 1..Len(pkts) : pkts[i].own = "old"),
       !.ponged = @ \/ (\E i \in 1..Len(pkts) : pkts[i].of = "COM_PING")]

\* what the client misses when pkts are freed
dropped(p, pkts) ==
    [p EXCEPT !.lost = @ \/ (\E i \in 1..Len(pkts) : pkts[i].own = "cur")]

\* the packet that ends the exchange that a COM_CHANGE_USER starts is among
\* pkts: its OK, its ERR or a request to switch to a plugin that is not served
HasChangeUserEnd(pkts) ==
    \E i \in 1..Len(pkts) :
        /\ pkts[i].of \in {"COM_CHANGE_USER", "AUTH_RESPONSE"}
        /\ pkts[i].cmd \in {"OK", "ERR"} \/ (pkts[i].cmd = "FE" /\ ~pkts[i].plugin)

\* a test that also holds when no reply is to be ignored
ignoring_replies_or_none(p) == p.m_ignore_replies >= 0

\* the test "proto->m_ignore_replies > 0" of normal_read
ignoring_replies(p) == p.m_ignore_replies > 0

\* MariaDBBackendConnection::normal_read with a router that asks for request
\* tracking of packet output (RCAP_TYPE_REQUEST_TRACKING, no STMT_OUTPUT,
\* no result collection)
normal_read(p) ==
    IF p.readq.nbytes = 0 THEN p
    ELSE
      LET tr == IF p.m_ignore_replies = 0
                THEN process_packets(p, p.readq)
                ELSE [p |-> p, processed |-> <<>>]
                       @@ modutil_get_complete_packets(p.readq)
          buf == tr.complete
          p1 == [tr.p EXCEPT !.readq = tr.rest,
                             !.cu_pending = @ /\ ~HasChangeUserEnd(buf)]
      IN
      IF buf = <<>> THEN p1
      ELSE
        LET ac == IF p1.m_changing_user /\ auth_change_requested(Head(buf))
                  THEN handle_auth_change_response(p1, Head(buf))
                  ELSE [p |-> p1, rv |-> FALSE]
        IN
        IF p1.m_changing_user /\ ac.rv THEN dropped(ac.p, buf)
        ELSE
          LET p2 == [ac.p EXCEPT !.m_changing_user = FALSE] IN
          IF ignoring_replies(p2)
          THEN
            LET query == p2.m_stored_query
                reply == buf[Len(buf)]
                p3 == dropped([p2 EXCEPT !.m_stored_query = <<>>,
                                         !.m_ignore_replies = @ - 1], buf)
            IN
            IF reply.cmd = "OK"
            THEN IF query # <<>> THEN write(p3, query).p ELSE p3
            ELSE IF auth_change_requested(reply)
            THEN LET h == handle_auth_change_response(p3, reply)
                 IN IF h.rv
                    THEN [h.p EXCEPT !.m_stored_query = query,
                                     !.m_ignore_replies = @ + 1]
                    ELSE [h.p EXCEPT !.hup_event = TRUE]
            ELSE [p3 EXCEPT !.hup_event = TRUE]
          ELSE client_reply(p2, buf)

\* MariaDBBackendConnection::ready_for_reading.  hs, au and ini are the
\* results of handshake(), authenticate() and send_connection_init_queries()
\* should the state machine get to call them.
ready_for_reading(p, hs, au, ini) ==
    LET Sub(q, st, res, next) ==
          IF q.m_state # st \/ q.stop THEN q
          ELSE CASE res = "IN_PROGRESS" -> [q EXCEPT !.stop = TRUE]
                 [] res = "DONE" -> [q EXCEPT !.m_state = next]
                 [] OTHER -> [q EXCEPT !.m_state = "FAILED"]
        q0 == [m_state |-> p.m_state, stop |-> FALSE]
        q1 == Sub(q0, "HANDSHAKING", hs, "AUTHENTICATING")
        q2 == Sub(q1, "AUTHENTICATING", au, "CONNECTION_INIT")
        q3 == Sub(q2, "CONNECTION_INIT", ini, "SEND_DELAYQ")
        p3 == [p EXCEPT !.m_state = q3.m_state]
        p4 == IF p3.m_state = "SEND_DELAYQ" /\ ~q3.stop
              THEN [send_delayed_packets(p3) EXCEPT !.m_state = "ROUTING"]
              ELSE p3
    IN IF p4.m_state = "ROUTING" /\ ~q3.stop THEN normal_read(p4) ELSE p4

----------------------------------------------------------------------------
(* State of the worker, its server and its connections                     *)

VARIABLES
    conn,                   \* Conns -> connection record
    m_dcbs,                 \* RoutingWorker::m_dcbs
    m_persistent_entries,   \* m_persistent_entries_by_server[server], front first
    m_evicting,             \* RoutingWorker::m_evicting
    m_zombies,              \* RoutingWorker::m_zombies
    n_persistent,           \* Server::pool_stats().n_persistent
    server_running,         \* SERVER_RUNNING in Server::status()
    now,                    \* time(nullptr)
    last_call,              \* SpecReuse, SpecBalance, SpecHub, SpecOps: the call
                            \* made, its input and its result
    shared,                 \* SpecAccept: the shared epoll instance and the workers
                            \* SpecTick: the event loop of one worker
                            \* SpecShutdown: the sessions and the shutdown
    reader,                 \* SpecReply: the connection that reads a reply stream
    mon                     \* SpecMon: the Clustrix monitor and its servers

poolvars == <<conn, m_dcbs, m_persistent_entries, m_evicting, m_zombies,
              n_persistent, server_running, now>>

vars == <<poolvars, last_call, shared, reader, mon>>

\* the worker and the objects it acts upon, as one value
World ==
    [conn |-> conn, dcbs |-> m_dcbs, entries |-> m_persistent_entries,
     evicting |-> m_evicting, zombies |-> m_zombies, n_persistent |-> n_persistent]

Commit(w) ==
    /\ conn' = w.conn
    /\ m_dcbs' = w.dcbs
    /\ m_persistent_entries' = w.entries
    /\ m_evicting' = w.evicting
    /\ m_zombies' = w.zombies
    /\ n_persistent' = w.n_persistent

\* PersistentEntry(pDcb): m_created = time(nullptr)
PersistentEntry(d) == [dcb |-> d, created |-> now]

\* RoutingWorker::destroy
destroy(w, d) == [w EXCEPT !.zombies = Append(@, d)]

\* mxb::atomic::add_limited(&n_persistent, 1, limit)
add_limited(n, limit) == n + 1 <= limit

\* DCB::disable_events and DCB::shutdown of a DCB that is being polled
stop_polling(w, d) ==
    IF w.conn[d].dcb_state = "POLLING"
    THEN [w EXCEPT !.conn[d].dcb_state = "NOPOLLING"]
    ELSE w

RECURSIVE can_be_destroyed(_, _, _)
RECURSIVE DCB_close(_, _, _)
RECURSIVE close_all(_, _)

\* RoutingWorker::close_pooled_dcb
close_pooled_dcb(w, d) ==
    LET w1 == [w EXCEPT !.dcbs = @ \cup {d}]
    IN DCB_close(stop_polling(w1, d), d, FALSE)

\* the loop "for (BackendDCB* pDcb : to_be_evicted) close_pooled_dcb(pDcb)"
close_all(w, ds) ==
    IF ds = <<>> THEN w ELSE close_all(close_pooled_dcb(w, Head(ds)), Tail(ds))

\* a scan that looks at the age of no entry
RECURSIVE evict_scan_whatever_age(_, _, _, _, _, _)
evict_scan_whatever_age(w, entries, all, count, kept, out) ==
    IF entries = <<>> THEN [kept |-> kept, evicted |-> out, count |-> count]
    ELSE LET entry == Head(entries)
         IN IF w.conn[entry.dcb].hanged_up \/ all \/ count > PoolMax
            THEN evict_scan_whatever_age(w, Tail(entries), all, count, kept,
                                         Append(out, entry.dcb))
            ELSE evict_scan_whatever_age(w, Tail(entries), all, count + 1,
                                         Append(kept, entry), out)

\* the scan of RoutingWorker::evict_dcbs over the entries of the server
RECURSIVE evict_scan(_, _, _, _, _, _)
evict_scan(w, entries, all, count, kept, out) ==
    IF entries = <<>> THEN [kept |-> kept, evicted |-> out, count |-> count]
    ELSE LET entry == Head(entries)
             hanged_up == w.conn[entry.dcb].hanged_up
             expired == all \/ (now - entry.created > PoolMaxTime)
             too_many == count > PoolMax
         IN IF hanged_up \/ expired \/ too_many
            THEN evict_scan(w, Tail(entries), all, count, kept, Append(out, entry.dcb))
            ELSE evict_scan(w, Tail(entries), all, count + 1, Append(kept, entry), out)

\* int RoutingWorker::evict_dcbs(SERVER*, Evict)
evict_dcbs(w, evict) ==
    LET all == (evict = "ALL") \/ ~server_running
        sc == evict_scan(w, w.entries, all, 0, <<>>, <<>>)
        w1 == [w EXCEPT !.evicting = TRUE,
                        !.entries = sc.kept,
                        !.n_persistent = @ - Len(sc.evicted)]
        w2 == close_all(w1, sc.evicted)
    IN [w |-> [w2 EXCEPT !.evicting = FALSE], count |-> sc.count]

\* DCB::clear and the hand-over of the DCB to the pool handler
to_pool(p) ==
    [p EXCEPT !.has_session = FALSE, !.readq = NoData, !.handler = "pool",
              !.nwritten = 0, !.quit = FALSE, !.accepted = <<>>, !.sent = <<>>,
              !.reused = FALSE, !.cu_pending = FALSE,
              !.leaked = FALSE, !.stale = FALSE, !.lost = FALSE, !.early = FALSE,
              !.ponged = FALSE]

\* a pool that takes a connection however many it holds
pool_has_room_unlimited(count, n) == TRUE

\* the two tests of can_be_destroyed on the size of the pool: the entries
\* that evict_dcbs has counted, and add_limited on n_persistent
pool_has_room(count, n) == count < PoolMax /\ add_limited(n, PoolMax)

\* a pooling that leaves the DCB in the book-keeping of the worker
move_to_pool_keep_dcb(w, d) ==
    [w EXCEPT !.n_persistent = @ + 1,
              !.conn[d] = to_pool(@),
              !.entries = Append(@, PersistentEntry(d))]

\* the body of can_be_destroyed once the DCB qualifies: n_persistent has
\* been added to, the DCB is cleared, handed to the pool handler, appended
\* to the entries of the server and erased from m_dcbs
move_to_pool(w, d) ==
    [w EXCEPT !.n_persistent = @ + 1,
              !.conn[d] = to_pool(@),
              !.entries = Append(@, PersistentEntry(d)),
              !.dcbs = @ \ {d}]

\* RoutingWorker::can_be_destroyed.  valid: session_valid_for_pool(session)
can_be_destroyed(w, d, valid) ==
    IF w.evicting THEN [w |-> w, rv |-> TRUE]
    ELSE
      LET p == w.conn[d]
          pre == /\ p.dcb_state = "POLLING"
                 /\ established(p)
                 /\ p.has_session
                 /\ valid
                 /\ PoolMax > 0
                 /\ server_running
                 /\ ~p.hanged_up
          ev == evict_dcbs(w, "EXPIRED")
      IN IF ~pre THEN [w |-> w, rv |-> TRUE]
         ELSE IF pool_has_room(ev.count, ev.w.n_persistent)
         THEN [w |-> move_to_pool(ev.w, d), rv |-> FALSE]
         ELSE [w |-> ev.w, rv |-> TRUE]

\* DCB::close: BackendDCB::prepare_for_destruction asks the worker whether
\* the DCB can be destroyed; if so the DCB is closed and handed to
\* RoutingWorker::destroy, otherwise it lives on in the pool.
DCB_close(w, d, valid) ==
    LET r == can_be_destroyed(w, d, valid)
    IN IF r.rv
       THEN destroy([r.w EXCEPT !.conn[d].open = FALSE], d)
       ELSE r.w

\* an eviction that closes the DCB and leaves its entry in the pool
evict_dcb_keeping_entry(w, d) ==
    [close_pooled_dcb([w EXCEPT !.evicting = TRUE], d) EXCEPT !.evicting = FALSE]

\* RoutingWorker::evict_dcb
evict_dcb(w, d) ==
    LET w1 == [w EXCEPT !.evicting = TRUE,
                        !.entries = SelectSeq(@, LAMBDA e : e.dcb # d)]
        w2 == close_pooled_dcb(w1, d)
    IN [w2 EXCEPT !.evicting = FALSE]

\* the connection is linked to a new session: what is still under way for
\* the previous session is not the new session's
new_session(p) ==
    LET Old(pkts) == [i \in 1..Len(pkts) |->
                        IF pkts[i].own = "cur" THEN [pkts[i] EXCEPT !.own = "old"]
                        ELSE pkts[i]]
    IN [p EXCEPT !.handler = "protocol", !.has_session = TRUE,
                 !.out = Old(@), !.readq.pkts = Old(@),
                 !.nwritten = 0, !.quit = FALSE, !.accepted = <<>>, !.sent = <<>>,
                 !.reused = FALSE, !.cu_pending = FALSE,
                 !.leaked = FALSE, !.stale = FALSE, !.lost = FALSE, !.early = FALSE,
                 !.offered = FALSE, !.ponged = FALSE]

\* the loop of RoutingWorker::get_backend_dcb_from_pool.  fail: the DCBs on
\* which writeq_append fails.
RECURSIVE take_loop(_, _)
take_loop(w, fail) ==
    IF w.entries = <<>> THEN [w |-> w, dcb |-> 0]
    ELSE LET d == Head(w.entries).dcb
             w1 == [w EXCEPT !.entries = Tail(@),
                             !.n_persistent = @ - 1,
                             !.conn[d] = new_session(@)]
             r == reuse_connection(w1.conn[d], d \notin fail)
             w2 == [w1 EXCEPT !.conn[d] = r.p]
         IN IF r.rv THEN [w |-> w2, dcb |-> d]
            ELSE LET w3 == stop_polling([w2 EXCEPT !.evicting = TRUE], d)
                     w4 == DCB_close(w3, d, FALSE)
                 IN take_loop([w4 EXCEPT !.evicting = FALSE], fail)

\* RoutingWorker::get_backend_dcb_from_pool
get_backend_dcb_from_pool(w, fail) ==
    LET ev == evict_dcbs(w, "EXPIRED")
        t == take_loop(ev.w, fail)
    IN IF t.dcb # 0
       THEN [w |-> [t.w EXCEPT !.dcbs = @ \cup {t.dcb}], dcb |-> t.dcb]
       ELSE t

\* Session::create_backend_connection: a new DCB d is connected, registered
\* with the worker (RoutingWorker::add) and polled
create_backend_connection(w, d) ==
    [w EXCEPT !.conn[d] = [NewConn EXCEPT !.exists = TRUE, !.open = TRUE,
                                          !.dcb_state = "POLLING",
                                          !.has_session = TRUE],
              !.dcbs = @ \cup {d}]

\* RoutingWorker::get_backend_dcb.  d: the DCB a new connection would get.
get_backend_dcb(w, fail, d) ==
    LET t == IF persistent_conns_enabled /\ server_running
             THEN get_backend_dcb_from_pool(w, fail)
             ELSE [w |-> w, dcb |-> 0]
    IN IF t.dcb # 0 THEN t.w
       ELSE IF d # 0 THEN create_backend_connection(t.w, d) ELSE t.w

\* what m_dcbs.erase(m_dcbs.end()) can take out of m_dcbs besides the
\* zombies zs: nothing when every zombie is found in m_dcbs; when one is
\* not, the behaviour of RoutingWorker::remove is undefined and any of the
\* other elements may be gone
erased_besides(w, zs) ==
    IF zs \subseteq w.dcbs THEN {{}} ELSE SUBSET (w.dcbs \ zs)

\* RoutingWorker::remove for every DCB that RoutingWorker::delete_zombies
\* destroys; the DCB objects are freed.  besides: see erased_besides.
delete_zombies(w, besides) ==
    LET zs == {w.zombies[i] : i \in 1..Len(w.zombies)}
    IN [w EXCEPT !.zombies = <<>>,
                 !.dcbs = (@ \ zs) \ besides,
                 !.conn = [d \in Conns |-> IF d \in zs THEN NewConn ELSE @[d]]]

----------------------------------------------------------------------------
(* Specification Spec: the worker, its pool and its backend connections    *)

Results == {"IN_PROGRESS", "DONE", "ERROR"}

\* the DCB is in use by a session and handles its own events
Active(d) ==
    /\ conn[d].exists /\ conn[d].open
    /\ conn[d].handler = "protocol" /\ conn[d].has_session

\* ... and no hangup has been reported to the session yet
Live(d) == Active(d) /\ ~conn[d].hanged_up

\* packets under way between the proxy and the backend
OnWire(p) == Len(p.out) + Len(p.readq.pkts)

Pooled(d) == \E i \in 1..Len(m_persistent_entries) : m_persistent_entries[i].dcb = d

\* the DCB that a new connection gets: the first one of S that is not allocated
FreeDcb(S) ==
    IF \E d \in S : ~conn[d].exists
    THEN CHOOSE d \in S : ~conn[d].exists /\ \A e \in S : ~conn[e].exists => d <= e
    ELSE 0

\* pings that are stored, that are on their way to the backend, or the
\* reply to which has not been read yet
PingsUnderWay(p) ==
    LET N(q) == Cardinality({i \in 1..Len(q) : q[i].cmd = "COM_PING"})
        R(q) == Cardinality({i \in 1..Len(q) : q[i].of = "COM_PING"})
    IN N(p.out) + N(p.m_stored_query) + N(p.m_delayed_packets) + R(p.readq.pkts)

\* no call has been made
NoCall == [op |-> "none"]

\* variables that an action on the connections of the worker leaves alone
beside_conn == <<m_dcbs, m_persistent_entries, m_evicting, m_zombies,
                 n_persistent, server_running, now, last_call, shared, reader, mon>>

\* variables that an action of the worker leaves alone
beside_worker == <<server_running, now, last_call, shared, reader, mon>>

Init ==
    /\ conn = [d \in Conns |-> NewConn]
    /\ m_dcbs = {}
    /\ m_persistent_entries = <<>>
    /\ m_evicting = FALSE
    /\ m_zombies = <<>>
    /\ n_persistent = 0
    /\ server_running = TRUE
    /\ now = 0
    /\ last_call = NoCall
    /\ shared = <<>>
    /\ reader = <<>>
    /\ mon = <<>>

\* ServerEndpoint::connect with the DCBs of S at its disposal
ConnectIn(S) ==
    /\ \A d \in Conns : Pooled(d) => OnWire(conn[d]) <= MaxStale
    /\ \E fail \in SUBSET {d \in Conns : Pooled(d)} :
          Commit(get_backend_dcb(World, fail, FreeDcb(S)))
    /\ UNCHANGED beside_worker

\* ServerEndpoint::connect
Connect == ConnectIn(Conns)

\* ServerEndpoint::routeQuery: the session writes a packet to the backend
SessionWrite(d) ==
    /\ Live(d)
    /\ conn[d].nwritten < MaxCmds /\ ~conn[d].quit
    /\ \E cmd \in {"COM_QUERY", "COM_QUIT"} :
          LET id == conn[d].nwritten + 1
              pkt == CmdPkt(cmd, 1, FALSE, 0, id, "cur")
              r == write([conn[d] EXCEPT !.nwritten = id], <<pkt>>)
              took == r.rc = 1 /\ cmd # "COM_QUIT"
          IN conn' = [conn EXCEPT ![d] =
                        [r.p EXCEPT !.quit = (cmd = "COM_QUIT"),
                                    !.accepted = IF took THEN Append(@, id) ELSE @]]
    /\ UNCHANGED beside_conn

\* the router keeps the connection alive
Ping(d) ==
    /\ Live(d) /\ ~conn[d].quit
    /\ PingsUnderWay(conn[d]) < MaxPings
    /\ conn' = [conn EXCEPT ![d] = ping(@)]
    /\ UNCHANGED beside_conn

\* the replies a backend gives to a packet
BackendReplies(c) ==
    CASE c.cmd \in {"COM_QUERY", "COM_PING"} ->
           {<<ReplyPkt("OK", 7, FALSE, 0, 0, TRUE, c)>>}
      [] c.cmd = "COM_CHANGE_USER" ->
           {<<ReplyPkt("OK", 7, FALSE, 0, 0, TRUE, c)>>,
            <<ReplyPkt("ERR", 20, FALSE, 0, 0, TRUE, c)>>,
            <<ReplyPkt("FE", 43, FALSE, 0, 0, TRUE, c)>>,
            <<ReplyPkt("FE", 43, FALSE, 0, 0, FALSE, c)>>}
      [] c.cmd = "AUTH_RESPONSE" ->
           {<<ReplyPkt("OK", 7, FALSE, 0, 0, TRUE, c)>>,
            <<ReplyPkt("ERR", 20, FALSE, 0, 0, TRUE, c)>>}
      [] OTHER -> {<<>>}

\* the backend answers the oldest packet it has not answered yet
BackendReply(d) ==
    /\ conn[d].exists
    /\ conn[d].out # <<>>
    /\ \E r \in BackendReplies(Head(conn[d].out)) :
          conn' = [conn EXCEPT ![d].out = Tail(@),
                               ![d].readq = [pkts |-> @.pkts \o r,
                                             nbytes |-> @.nbytes + BytesOf(r)]]
    /\ UNCHANGED beside_conn

\* EPOLLIN on a DCB whose handler is its protocol
ReadEvent(d) ==
    /\ Live(d)
    /\ conn[d].m_state \notin {"ROUTING", "FAILED"} \/ conn[d].readq.nbytes > 0
    /\ \E hs \in Results, au \in Results, ini \in Results :
          conn' = [conn EXCEPT ![d] = ready_for_reading(@, hs, au, ini)]
    /\ UNCHANGED beside_conn

\* EPOLLHUP, or the event of trigger_hangup_event, on a DCB in use: the
\* protocol reports the error to the session and the DCB is marked
Hangup(d) ==
    /\ Live(d)
    /\ conn' = [conn EXCEPT ![d].hanged_up = TRUE, ![d].hup_event = FALSE]
    /\ UNCHANGED beside_conn

\* RoutingWorker::DCBHandler: any event on a DCB that is in the pool
PoolEvent(d) ==
    /\ Pooled(d)
    /\ Commit(evict_dcb(World, d))
    /\ UNCHANGED beside_worker

\* ServerEndpoint::close
CloseEndpoint(d) ==
    /\ Active(d)
    /\ \E valid \in BOOLEAN :
          Commit(DCB_close([World EXCEPT !.conn[d].offered = valid], d, valid))
    /\ UNCHANGED beside_worker

\* RoutingWorker::delete_zombies, run in every epoll_tick
DeleteZombies ==
    /\ m_zombies # <<>>
    /\ \E besides \in erased_besides(World, {m_zombies[i] : i \in 1..Len(m_zombies)}) :
          Commit(delete_zombies(World, besides))
    /\ UNCHANGED beside_worker

\* Server::cleanup_persistent_connections
CleanupPersistentConnections ==
    /\ Commit(evict_dcbs(World, "EXPIRED").w)
    /\ UNCHANGED beside_worker

\* the monitor sets or clears SERVER_RUNNING
SetServerStatus ==
    /\ server_running' = ~server_running
    /\ UNCHANGED <<conn, m_dcbs, m_persistent_entries, m_evicting, m_zombies,
                   n_persistent, now, last_call, shared, reader, mon>>

\* a second passes
Tick ==
    /\ now < MaxTime
    /\ now' = now + 1
    /\ UNCHANGED <<conn, m_dcbs, m_persistent_entries, m_evicting, m_zombies,
                   n_persistent, server_running, last_call, shared, reader, mon>>

Next ==
    \/ Connect
    \/ \E d \in Conns : BackendReply(d)
    \/ \E d \in Conns : ReadEvent(d)
    \/ \E d \in Conns : Hangup(d)
    \/ \E d \in Conns : PoolEvent(d)
    \/ \E d \in Conns : CloseEndpoint(d)
    \/ DeleteZombies
    \/ CleanupPersistentConnections
    \/ SetServerStatus
    \/ Tick

Spec == Init /\ [][Next]_vars

----------------------------------------------------------------------------
(* Properties of the pool (Spec)                                           *)

\* the DCBs that the pool of the worker holds
PoolDcbs == {m_persistent_entries[i].dcb : i \in 1..Len(m_persistent_entries)}

\* C1: between the handlers of the worker, no backend DCB is both in m_dcbs
\* and in the pool of the worker
C1_ActiveAndPoolDisjoint == m_dcbs \cap PoolDcbs = {}

\* a DCB is in the pool while another DCB, which came out of the pool, is in use
C1_Witness ==
    \E d \in Conns, e \in Conns :
        /\ d \in PoolDcbs /\ d \notin m_dcbs
        /\ e \in m_dcbs /\ Active(e) /\ conn[e].out # <<>>
        /\ Head(conn[e].out).cmd = "COM_CHANGE_USER"

\* C5: the pool never holds more than persistpoolmax entries, and a DCB
\* enters the pool only if the entries that stay beside it are strictly
\* fewer than persistpoolmax
C5_PoolWithinMax ==
    /\ [](Len(m_persistent_entries) <= PoolMax)
    /\ [][\A d \in Conns :
             (d \notin PoolDcbs /\ d \in PoolDcbs')
                => Cardinality(PoolDcbs' \ {d}) < PoolMax]_vars

\* the pool is full and a DCB that qualified for it in every other respect
\* has been closed instead
C5_Witness ==
    /\ Len(m_persistent_entries) = PoolMax
    /\ server_running
    /\ \E d \in Conns :
          /\ \E i \in 1..Len(m_zombies) : m_zombies[i] = d
          /\ conn[d].dcb_state = "POLLING" /\ established(conn[d])
          /\ conn[d].has_session /\ ~conn[d].hanged_up

\* the step is ServerEndpoint::close of DCB d: a DCB in use is closed or pooled
IsClose(d) ==
    Active(d) /\ (~conn'[d].open \/ d \in PoolDcbs')

\* the conditions that C11 lists, at the call
Poolable(d) ==
    /\ PoolMax > 0
    /\ server_running
    /\ conn[d].dcb_state = "POLLING"
    /\ conn[d].m_state = "ROUTING"
    /\ conn[d].m_ignore_replies = 0
    /\ conn[d].m_stored_query = <<>>
    /\ conn'[d].offered
    /\ ~conn[d].hanged_up

\* C11: a DCB that its session closes enters the pool only if, at the call,
\* persistpoolmax > 0, the server is running, the DCB is polled, the
\* protocol is in state ROUTING with no reply to ignore and no stored
\* query, the session is valid for the pool and the DCB has not been hung
\* up; if one of these fails the DCB is closed and handed to destroy
C11_PooledOnlyIfAllHold ==
    [][\A d \in Conns :
          IsClose(d) =>
             /\ d \in PoolDcbs' => Poolable(d)
             /\ ~Poolable(d) =>
                   /\ d \notin PoolDcbs'
                   /\ ~conn'[d].open
                   /\ \E i \in 1..Len(m_zombies') : m_zombies'[i] = d]_vars

\* a DCB is in the pool, put there by a session that was valid for the pool,
\* and another one that was in use in state ROUTING has been destroyed
\* because its session was not
C11_Witness ==
    \E d \in Conns, e \in Conns :
        /\ d \in PoolDcbs /\ conn[d].offered
        /\ \E i \in 1..Len(m_zombies) : m_zombies[i] = e
        /\ ~conn[e].offered /\ established(conn[e])
        /\ conn[e].has_session /\ ~conn[e].hanged_up

----------------------------------------------------------------------------
(* Specification SpecConn: one backend connection and the sessions that    *)
(* use it one after the other, with the traffic of the sessions            *)

\* ServerEndpoint::connect when the worker has a single DCB at its disposal
ConnectOne == ConnectIn({1})

NextConn ==
    \/ ConnectOne
    \/ SessionWrite(1)
    \/ Ping(1)
    \/ BackendReply(1)
    \/ ReadEvent(1)
    \/ Hangup(1)
    \/ PoolEvent(1)
    \/ CloseEndpoint(1)
    \/ DeleteZombies

SpecConn == Init /\ [][NextConn]_vars

----------------------------------------------------------------------------
(* Properties of a backend connection (SpecConn)                           *)

\* C2: the counter of replies to ignore is never negative, whatever the
\* order of write(), ping(), reuse_connection() and the replies of the backend
C2_IgnoreRepliesNotNegative == \A d \in Conns : conn[d].m_ignore_replies >= 0

\* a connection taken from the pool has counted up for its COM_CHANGE_USER
\* and down again for the OK, and is at 0 with nothing under way
C2_Witness ==
    \E d \in Conns :
        /\ Active(d) /\ conn[d].reused /\ ~conn[d].cu_pending
        /\ conn[d].m_ignore_replies = 0 /\ conn[d].out = <<>>
        /\ conn[d].readq = NoData

\* the session of the DCB took it from the pool, and no failure of the
\* connection has been found since
Reused(d) ==
    Active(d) /\ conn[d].reused /\ ~conn[d].hup_event /\ ~conn[d].hanged_up

\* s is the beginning of t
IsPrefix(s, t) == Len(s) <= Len(t) /\ \A i \in 1..Len(s) : s[i] = t[i]

\* C3: the client of a session that uses a connection from the pool gets
\* the reply to each of its commands and nothing else: no reply to the
\* COM_CHANGE_USER exchange and no reply that an earlier session is owed is
\* forwarded, and no reply to a command of the session is dropped
C3_OneResponsePerCommand ==
    \A d \in Conns :
        Reused(d) => ~conn[d].leaked /\ ~conn[d].stale /\ ~conn[d].lost

\* C4: a connection that is in the pool has reply state DONE
C4_PooledReplyDone ==
    \A d \in Conns : Pooled(d) => conn[d].reply_state = "DONE"

\* C9: the packets that the session writes while the COM_CHANGE_USER of the
\* reuse is unanswered are sent only after its final OK, once each and in
\* the order written, and after that OK no reply is left to ignore
C9_StoredUntilChangeUserOk ==
    \A d \in Conns :
        Reused(d) =>
            /\ ~conn[d].early
            /\ IsPrefix(conn[d].sent, conn[d].accepted)
            /\ (~conn[d].cu_pending /\ PingsUnderWay(conn[d]) = 0)
                  => /\ conn[d].m_stored_query = <<>>
                     /\ conn[d].sent = conn[d].accepted
                     /\ conn[d].m_ignore_replies = 0

----------------------------------------------------------------------------
(* Specification SpecReuse: reuse_connection called once on a connection   *)
(* in any state that a connection object can be in                         *)

MaxIgnore == 2       \* replies that the connection is to ignore when it is called

\* DCB::State
DcbStates == {"CREATED", "POLLING", "NOPOLLING", "DISCONNECTED"}

\* MariaDBBackendConnection::State
ProtocolStates == {"HANDSHAKING", "AUTHENTICATING", "CONNECTION_INIT",
                   "SEND_DELAYQ", "ROUTING", "FAILED"}

\* a command that an earlier user of the connection wrote
OldQuery == CmdPkt("COM_QUERY", 1, FALSE, 0, 1, "old")

\* The connections that reuse_connection can be handed.  Replies are
\* ignored only in state ROUTING, a query is stored only while replies are
\* ignored, and packets are delayed only before state ROUTING.
ReuseInputs ==
    {[NewConn EXCEPT !.exists = TRUE, !.open = TRUE, !.has_session = TRUE,
                     !.dcb_state = ds, !.m_state = st, !.m_ignore_replies = n,
                     !.m_stored_query = sq, !.m_delayed_packets = dq] :
        ds \in DcbStates, st \in ProtocolStates, n \in 0..MaxIgnore,
        sq \in {<<>>, <<OldQuery>>}, dq \in {<<>>, <<OldQuery>>}}

InitReuse ==
    /\ \E p \in ReuseInputs :
          /\ p.m_ignore_replies > 0 => p.m_state = "ROUTING"
          /\ p.m_stored_query # <<>> => p.m_ignore_replies > 0
          /\ p.m_delayed_packets # <<>> => p.m_state # "ROUTING"
          /\ conn = [d \in Conns |-> IF d = 1 THEN p ELSE NewConn]
    /\ m_dcbs = {1}
    /\ m_persistent_entries = <<>>
    /\ m_evicting = FALSE
    /\ m_zombies = <<>>
    /\ n_persistent = 0
    /\ server_running = TRUE
    /\ now = 0
    /\ last_call = NoCall
    /\ shared = <<>>
    /\ reader = <<>>
    /\ mon = <<>>

\* pDcb->protocol()->reuse_connection(pDcb, pUpstream)
Reuse ==
    /\ last_call = NoCall
    /\ shared = <<>>
    /\ \E wok \in BOOLEAN :
          LET r == reuse_connection(conn[1], wok)
          IN /\ conn' = [conn EXCEPT ![1] = r.p]
             /\ last_call' = [op |-> "reuse", before |-> conn[1],
                              wok |-> wok, rv |-> r.rv]
    /\ UNCHANGED <<m_dcbs, m_persistent_entries, m_evicting, m_zombies,
                   n_persistent, server_running, now, shared, reader, mon>>

NextReuse == Reuse

SpecReuse == InitReuse /\ [][NextReuse]_vars

----------------------------------------------------------------------------
(* Specification SpecReply: a connection in state ROUTING reads the reply  *)
(* to one command, which arrives in pieces, through process_packets        *)

MaxRows == 2         \* rows of the resultset that the backend sends
MaxConts == 2        \* packets that continue one row
MaxDefs == 2         \* columns, and parameters, of a prepared statement

\* the command that is answered
ReplyCommands ==
    {CmdPkt("COM_QUERY", 10, FALSE, 0, 1, "cur"),
     CmdPkt("COM_STMT_FETCH", 8, FALSE, 0, 1, "cur"),
     CmdPkt("COM_STMT_PREPARE", 9, FALSE, 0, 1, "cur"),
     CmdPkt("COM_STMT_EXECUTE", 10, FALSE, 0, 1, "cur"),
     CmdPkt("COM_STMT_EXECUTE", 10, FALSE, 1, 1, "cur")}

\* a packet that continues a row: its first byte is the next byte of the
\* row, so it can be any byte
Continuation(cmd, len, c) == ReplyPkt(cmd, len, FALSE, 0, 0, TRUE, c)

\* what can follow the first packet of a row of 2^24-1 bytes or more: k
\* packets of the full length and then a shorter one, which is empty when
\* the row ends on the boundary and which can look like an EOF packet
Continuations(c) ==
    LET last == {<<Continuation("DATA", 0, c)>>,
                 <<Continuation("FE", MYSQL_EOF_PACKET_LEN - MYSQL_HEADER_LEN, c)>>}
        full == Continuation("ERR", GW_MYSQL_MAX_PACKET_LEN, c)
    IN {[i \in 1..k |-> full] \o l : k \in 0..(MaxConts - 1), l \in last}

\* one row: in one packet, or in a packet of 2^24-1 bytes and its continuations
Rows(c) ==
    {<<ReplyPkt("DATA", 10, FALSE, 0, 0, TRUE, c)>>}
      \cup {<<ReplyPkt("DATA", GW_MYSQL_MAX_PACKET_LEN, FALSE, 0, 0, TRUE, c)>> \o t :
               t \in Continuations(c)}

\* the rows of a resultset
RECURSIVE RowSeqs(_, _)
RowSeqs(c, n) ==
    IF n = 0 THEN {<<>>}
    ELSE LET shorter == RowSeqs(c, n - 1)
         IN shorter \cup {r \o rs : r \in Rows(c), rs \in {x \in shorter : Len(x) > 0}}
                    \cup Rows(c)

\* the EOF packet that ends the rows
LastEof(c) == ReplyPkt("FE", MYSQL_EOF_PACKET_LEN - MYSQL_HEADER_LEN, FALSE, 0, 0, TRUE, c)

\* the replies of the backend to a COM_STMT_PREPARE: the OK packet with the
\* numbers of columns and of parameters, the definitions of the parameters
\* and their EOF, the definitions of the columns and their EOF
PrepareStreams(c) ==
    LET Defs(n) == IF n = 0 THEN <<>>
                   ELSE [i \in 1..n |-> ReplyPkt("DATA", 20, FALSE, 0, 0, TRUE, c)]
                          \o <<LastEof(c)>>
    IN {<<ReplyPkt("OK", 12, FALSE, ncol, nprm, TRUE, c)>> \o Defs(nprm) \o Defs(ncol) :
           ncol \in 0..MaxDefs, nprm \in 0..MaxDefs}

\* the replies of the backend to command c: a resultset (for COM_STMT_FETCH
\* its rows only) that ends with an EOF packet or, after a row, with an ERR
\* packet; a resultset whose EOF packet announces more results, followed by
\* an OK packet or by a second resultset; an ERR packet; an OK packet.  To a
\* COM_STMT_EXECUTE that asks for a cursor: the column definitions and their
\* EOF packet, an ERR packet or an OK packet
ReplyStreams(c) ==
    IF c.cmd = "COM_STMT_PREPARE" THEN PrepareStreams(c) ELSE
    LET head == IF c.cmd \in {"COM_QUERY", "COM_STMT_EXECUTE"}
                THEN <<ReplyPkt("DATA", 1, FALSE, 1, 0, TRUE, c),
                       ReplyPkt("DATA", 20, FALSE, 0, 0, TRUE, c),
                       ReplyPkt("FE", MYSQL_EOF_PACKET_LEN - MYSQL_HEADER_LEN,
                                FALSE, 0, 0, TRUE, c)>>
                ELSE <<>>
        row == ReplyPkt("DATA", 10, FALSE, 0, 0, TRUE, c)
        err == ReplyPkt("ERR", 20, FALSE, 0, 0, TRUE, c)
        ok == ReplyPkt("OK", 7, FALSE, 0, 0, TRUE, c)
        more == ReplyPkt("FE", MYSQL_EOF_PACKET_LEN - MYSQL_HEADER_LEN,
                         TRUE, 0, 0, TRUE, c)
        alone == {<<err>>, <<ok>>}
    IN IF c.cmd = "COM_STMT_EXECUTE" /\ c.flag # 0 THEN {head} \cup alone
       ELSE {head \o rs \o <<LastEof(c)>> : rs \in RowSeqs(c, MaxRows) \ {<<>>}}
              \cup {head \o <<row, err>>}
              \cup (IF head = <<>> THEN {}
                    ELSE alone \cup {head \o <<row, more, ok>>,
                                     head \o <<row, more>> \o head \o <<row, LastEof(c)>>})

\* the number of bytes of the first n packets of pkts
RECURSIVE BytesUpTo(_, _)
BytesUpTo(pkts, n) ==
    IF n = 0 THEN 0
    ELSE BytesUpTo(pkts, n - 1) + MYSQL_HEADER_LEN + pkts[n].len

\* the places at which a read can end: in a header, after a header, in a
\* payload and at the end of a packet
CutPoints(pkts) ==
    UNION {LET b == BytesUpTo(pkts, i - 1)
           IN {b + 2, b + MYSQL_HEADER_LEN, b + MYSQL_HEADER_LEN + pkts[i].len}
                \cup (IF pkts[i].len > 1 THEN {b + MYSQL_HEADER_LEN + 1} ELSE {})
           : i \in 1..Len(pkts)}

\* the connection right after the command has been written in state ROUTING
Asked(c) ==
    track_query([NewConn EXCEPT !.exists = TRUE, !.open = TRUE,
                                !.dcb_state = "POLLING", !.has_session = TRUE,
                                !.m_state = "ROUTING"], c)

\* a COM_STMT_EXECUTE of the session that asks for a cursor
CursorExecute == CmdPkt("COM_STMT_EXECUTE", 10, FALSE, 1, 0, "old")

\* the connection right after command c has been written: it is the first
\* command written, or a CursorExecute has been written and answered before
AskedNext(c) ==
    {Asked(c)} \cup
    {track_query(process_packets(Asked(CursorExecute),
                                 [pkts |-> st, nbytes |-> BytesOf(st)]).p, c) :
        st \in ReplyStreams(CursorExecute)}

InitReply ==
    /\ conn = [d \in Conns |-> NewConn]
    /\ m_dcbs = {}
    /\ m_persistent_entries = <<>>
    /\ m_evicting = FALSE
    /\ m_zombies = <<>>
    /\ n_persistent = 0
    /\ server_running = TRUE
    /\ now = 0
    /\ last_call = NoCall
    /\ shared = <<>>
    /\ mon = <<>>
    /\ \E c \in ReplyCommands : \E st \in ReplyStreams(c), q \in AskedNext(c) :
          reader = [p |-> [q EXCEPT !.readq = [pkts |-> st, nbytes |-> 0]],
                    start |-> q,            \* the connection before the reply
                    cmd |-> c,              \* the command that is answered
                    stream |-> st,          \* all that the backend sends
                    arrived |-> 0,          \* bytes of it that have arrived
                    calls |-> <<>>]         \* per packet taken: process_one_packet ran

\* more of the reply arrives at the socket
Arrive ==
    /\ \E n \in CutPoints(reader.stream) :
          /\ n > reader.arrived
          /\ reader' = [reader EXCEPT !.arrived = n,
                                      !.p.readq.nbytes = @ + (n - reader.arrived)]
    /\ UNCHANGED <<poolvars, last_call, shared, mon>>

\* EPOLLIN: normal_read reads what has arrived and tracks the complete
\* packets (track_response); what is incomplete stays in the read queue
ReadReply ==
    /\ reader.p.readq.nbytes > 0
    /\ LET tr == process_packets(reader.p, reader.p.readq)
       IN reader' = [reader EXCEPT !.p = [tr.p EXCEPT !.readq = tr.rest],
                                   !.calls = @ \o tr.processed]
    /\ UNCHANGED <<poolvars, last_call, shared, mon>>

NextReply == Arrive \/ ReadReply

SpecReply == InitReply /\ [][NextReply]_vars

\* packet i of the stream starts a logical packet: it does not continue the
\* packet before it
StartsPacket(stream, i) ==
    i = 1 \/ stream[i - 1].len # GW_MYSQL_MAX_PACKET_LEN

\* the reply state after the first n packets of the stream when the state
\* machine is advanced once for every logical packet, on its first packet
RECURSIVE AdvancedOncePerPacket(_, _, _)
AdvancedOncePerPacket(p, stream, n) ==
    IF n = 0 THEN p
    ELSE LET q == AdvancedOncePerPacket(p, stream, n - 1)
         IN IF StartsPacket(stream, n) THEN process_one_packet(q, stream[n]) ELSE q

\* what the reply state machine keeps
ReplyTracking(p) ==
    <<p.reply_state, p.reply_rows, p.m_num_coldefs, p.m_ps_packets,
      p.m_opening_cursor, p.load_active>>

\* C8: of the packets read so far, process_one_packet has run for exactly
\* those that start a logical packet, never for a continuation of a packet
\* of 2^24-1 bytes, whatever the length of the last continuation and
\* wherever the reads ended; so the reply state is the one that one advance
\* per logical packet gives
C8_LargePacketAdvancesOnce ==
    LET n == Len(reader.calls)
    IN /\ \A i \in 1..n : reader.calls[i] <=> StartsPacket(reader.stream, i)
       /\ ReplyTracking(reader.p)
            = ReplyTracking(AdvancedOncePerPacket(reader.start, reader.stream, n))

\* a row that ends on the boundary is being read in pieces: its packets of
\* 2^24-1 bytes have been taken, the second one without a call of
\* process_one_packet, and half of the header of its empty last packet is
\* in the read queue
C8_Witness ==
    \E i \in 2..(Len(reader.stream) - 1) :
        /\ Len(reader.calls) = i
        /\ reader.stream[i - 1].len = GW_MYSQL_MAX_PACKET_LEN
        /\ reader.stream[i].len = GW_MYSQL_MAX_PACKET_LEN
        /\ ~reader.calls[i]
        /\ reader.stream[i + 1].len = 0
        /\ reader.p.readq.nbytes = 2
        /\ reader.p.m_skip_next

----------------------------------------------------------------------------
(* SpecMon: the Clustrix monitor thread, the nodes it knows, the servers   *)
(* that back them and its bookkeeping of dynamic nodes.                    *)
(*                                                                         *)
(* The hub is a node of the cluster that answers two queries; its answers  *)
(* are part of the state and change by an action of their own.  Of what    *)
(* system.membership tells about a node only the node id is kept: status,  *)
(* substate and instance are stored by the node and read by nothing that   *)
(* is modelled.                                                            *)

MaxNodes == 1        \* node ids that the hub can report
MaxThreshold == 2    \* largest configured health_check_threshold

DEFAULT_MYSQL_PORT == 3306
DEFAULT_HEALTH_PORT == 3581

NodeIds == 1..MaxNodes

\* the status bits that the monitor sets and clears
RunningBits == {"SERVER_MASTER", "SERVER_RUNNING"}
DrainingBits == {"SERVER_DRAINING"}

\* the address of the configured bootstrap server
BootstrapIp == "10.0.0.1"

\* where system.nodeinfo can say that a node is
Addresses ==
    { [ip |-> BootstrapIp, mysql_port |-> DEFAULT_MYSQL_PORT,
       health_port |-> DEFAULT_HEALTH_PORT],
      [ip |-> "10.0.0.2", mysql_port |-> DEFAULT_MYSQL_PORT + 1,
       health_port |-> DEFAULT_HEALTH_PORT + 1] }

\* a row of system.nodeinfo joined with system.softfailed_nodes
NodeInfoRows ==
    { [ip |-> a.ip, mysql_port |-> a.mysql_port, health_port |-> a.health_port,
       softfailed |-> s] : a \in Addresses, s \in BOOLEAN }

\* what the hub can answer: the ids in system.membership and the rows of
\* system.nodeinfo by node id
HubAnswers ==
    { [membership |-> ms, nodeinfo |-> ni] :
        ms \in SUBSET NodeIds,
        ni \in UNION { [S -> NodeInfoRows] : S \in SUBSET NodeIds } }

\* f without its values at the ids of S
Without(f, S) == [i \in (DOMAIN f) \ S |-> f[i]]

\* f with the value v at id
With(f, id, v) == [i \in (DOMAIN f) \cup {id} |-> IF i = id THEN v ELSE f[i]]

\* the step taken last and what it did: the results that check_http applied,
\* the nodes that were running before it, the calls of unpersist for each
\* node, the success of the two queries of refresh_nodes and whether it
\* repeated a refresh, the server that a softfail or unsoftfail was asked
\* for and whether its ALTER CLUSTER was executed; here, no step has been
\* taken
NoOperation ==
    [op |-> "none", results |-> <<>>, was_running |-> {},
     unpersist |-> [i \in NodeIds |-> 0], mok |-> FALSE, nok |-> FALSE,
     repeat |-> FALSE, target |-> 0, altered |-> FALSE]

\* Server::set_status of the server of node id
set_status(m, id, bits) ==
    [m EXCEPT !.servers[id].status = @ \cup bits]

\* a clear that leaves only the given bits, "m_status &= bit"
clear_status_keeping(m, id, bits) ==
    [m EXCEPT !.servers[id].status = @ \cap bits]

\* Server::clear_status of the server of node id
clear_status(m, id, bits) ==
    [m EXCEPT !.servers[id].status = @ \ bits]

\* ClustrixMonitor::persist: INSERT OR REPLACE of the row of the node
persist(m, id) ==
    LET node == m.m_nodes_by_id[id]
    IN [m EXCEPT !.db = With(@, id, [ip |-> node.m_ip,
                                     mysql_port |-> node.m_mysql_port,
                                     health_port |-> node.m_health_port])]

\* ClustrixMonitor::unpersist: DELETE of the row of the node
unpersist(m, id) ==
    [m EXCEPT !.db = Without(@, {id}), !.last.unpersist[id] = @ + 1]

\* ClustrixNode::is_running
is_running(node) == node.m_nRunning > 0

\* set_running that counts down also when the node is already down
set_running_below_zero(m, id, running, approach) ==
    LET node == m.m_nodes_by_id[id]
    IN IF running
       THEN LET m1 == IF node.m_nRunning = 0
                      THEN persist(set_status(m, id, RunningBits), id)
                      ELSE m
            IN [m1 EXCEPT !.m_nodes_by_id[id].m_nRunning =
                                        node.m_health_check_threshold]
       ELSE LET n == IF approach = "APPROACH_OVERRIDE" \/ node.m_nRunning = 0
                     THEN 0
                     ELSE node.m_nRunning - 1
                m1 == [m EXCEPT !.m_nodes_by_id[id].m_nRunning = n]
            IN IF n = 0
               THEN unpersist(clear_status(m1, id, RunningBits), id)
               ELSE m1

\* set_running that counts down whatever the approach
set_running_by_default(m, id, running, approach) ==
    LET node == m.m_nodes_by_id[id]
    IN IF running
       THEN LET m1 == IF node.m_nRunning = 0
                      THEN persist(set_status(m, id, RunningBits), id)
                      ELSE m
            IN [m1 EXCEPT !.m_nodes_by_id[id].m_nRunning =
                                        node.m_health_check_threshold]
       ELSE IF node.m_nRunning > 0
            THEN LET n == node.m_nRunning - 1
                     m1 == [m EXCEPT !.m_nodes_by_id[id].m_nRunning = n]
                 IN IF n = 0
                    THEN unpersist(clear_status(m1, id, RunningBits), id)
                    ELSE m1
            ELSE m

\* ClustrixNode::set_running
set_running(m, id, running, approach) ==
    LET node == m.m_nodes_by_id[id]
    IN IF running
       THEN LET m1 == IF node.m_nRunning = 0
                      THEN persist(set_status(m, id, RunningBits), id)
                      ELSE m
            IN [m1 EXCEPT !.m_nodes_by_id[id].m_nRunning =
                                        node.m_health_check_threshold]
       ELSE IF node.m_nRunning > 0
            THEN LET n == IF approach = "APPROACH_OVERRIDE"
                          THEN 0
                          ELSE node.m_nRunning - 1
                     m1 == [m EXCEPT !.m_nodes_by_id[id].m_nRunning = n]
                 IN IF n = 0
                    THEN unpersist(clear_status(m1, id, RunningBits), id)
                    ELSE m1
            ELSE m

\* ClustrixNode::update(ip, mysql_port, health_port)
update(m, id, ip, mysql_port, health_port) ==
    LET node == m.m_nodes_by_id[id]
        changed == \/ ip # node.m_ip
                   \/ mysql_port # node.m_mysql_port
                   \/ health_port # node.m_health_port
        m1 == [m EXCEPT !.m_nodes_by_id[id].m_ip = ip,
                        !.m_nodes_by_id[id].m_mysql_port = mysql_port,
                        !.m_nodes_by_id[id].m_health_port = health_port,
                        !.servers[id].port = mysql_port]
    IN IF changed THEN persist(m1, id) ELSE m

\* ClustrixNode::deactivate_server
deactivate_server(m, id) ==
    unpersist([m EXCEPT !.servers[id].active = FALSE], id)

\* check_cluster_membership, the loop that deactivates the servers of the
\* nodes that are no longer members, from node id on
RECURSIVE deactivate_non_members(_, _, _)
deactivate_non_members(m, nids, id) ==
    IF id > MaxNodes THEN m
    ELSE IF id \in nids
         THEN LET m1 == deactivate_server(m, id)
              IN deactivate_non_members(
                     [m1 EXCEPT !.m_nodes_by_id = Without(@, {id}),
                                !.fails[id] = 0],
                     nids, id + 1)
         ELSE deactivate_non_members(m, nids, id + 1)

\* ClustrixMonitor::check_cluster_membership when the query has succeeded:
\* the monitor afterwards and the members that it does not know
check_cluster_membership(m, membership) ==
    LET known == DOMAIN m.m_nodes_by_id
    IN [m |-> deactivate_non_members(m, known \ membership, 1),
        memberships |-> membership \ known]

\* the ClustrixNode constructor for the row of a new member, after
\* runtime_create_server has created its server
new_node(m, id, row) ==
    LET server == [active |-> TRUE,
                   status |-> IF row.softfailed THEN DrainingBits ELSE {},
                   address |-> row.ip,
                   port |-> row.mysql_port]
        node == [m_ip |-> row.ip,
                 m_mysql_port |-> row.mysql_port,
                 m_health_port |-> row.health_port,
                 m_health_check_threshold |-> m.health_check_threshold,
                 m_nRunning |-> m.health_check_threshold]
        m1 == [m EXCEPT !.servers = With(@, id, server),
                        !.m_nodes_by_id = With(@, id, node),
                        !.fails[id] = 0]
    IN [persist(set_status(m1, id, RunningBits), id)
           EXCEPT !.service_servers = @ \cup {id}]

\* refresh_nodes, the loop over the rows of system.nodeinfo, from node id
\* on: the monitor afterwards and the known nodes that had no row
RECURSIVE refresh_rows(_, _, _, _, _)
refresh_rows(m, nodeinfo, memberships, nids, id) ==
    IF id > MaxNodes THEN [m |-> m, nids |-> nids]
    ELSE IF id \notin DOMAIN nodeinfo
         THEN refresh_rows(m, nodeinfo, memberships, nids, id + 1)
    ELSE LET row == nodeinfo[id]
         IN IF id \in DOMAIN m.m_nodes_by_id
            THEN \* existing node
                 LET m1 == update(m, id, row.ip, row.mysql_port, row.health_port)
                     is_draining == "SERVER_DRAINING" \in m1.servers[id].status
                     m2 == IF row.softfailed /\ ~is_draining
                           THEN set_status(m1, id, DrainingBits)
                           ELSE IF ~row.softfailed /\ is_draining
                           THEN clear_status(m1, id, DrainingBits)
                           ELSE m1
                 IN refresh_rows(m2, nodeinfo, memberships, nids \ {id}, id + 1)
            ELSE IF id \in memberships
            THEN \* new node
                 LET m1 == IF m.server_creatable THEN new_node(m, id, row) ELSE m
                 IN refresh_rows(m1, nodeinfo, memberships \ {id}, nids, id + 1)
            ELSE \* in system.nodeinfo but not in system.membership
                 refresh_rows(m, nodeinfo, memberships, nids, id + 1)

\* refresh_nodes, the loop over the nodes that were not found, from id on
RECURSIVE set_not_found(_, _, _)
set_not_found(m, nids, id) ==
    IF id > MaxNodes THEN m
    ELSE IF id \in nids
         THEN set_not_found(set_running(m, id, FALSE, "APPROACH_OVERRIDE"),
                            nids, id + 1)
         ELSE set_not_found(m, nids, id + 1)

\* the health URLs of the nodes, in the order of the node map, from id on
RECURSIVE health_urls(_, _)
health_urls(nodes, id) ==
    IF id > MaxNodes THEN <<>>
    ELSE IF id \in DOMAIN nodes
         THEN <<[ip |-> nodes[id].m_ip, port |-> nodes[id].m_health_port]>>
                  \o health_urls(nodes, id + 1)
         ELSE health_urls(nodes, id + 1)

\* http::Async after reset()
NoHttp == [status |-> "READY", urls |-> <<>>]

\* ClustrixMonitor::update_http_urls
update_http_urls(m) ==
    LET urls == health_urls(m.m_nodes_by_id, 1)
    IN IF m.m_health_urls # urls
       THEN [m EXCEPT !.m_delayed_http_check_id = FALSE,
                      !.m_http = NoHttp,
                      !.m_health_urls = urls]
       ELSE m

\* ClustrixMonitor::refresh_nodes(pHub_con); mok and nok tell whether the
\* queries on system.membership and on system.nodeinfo succeed
refresh_nodes(m, answer, mok, nok) ==
    IF ~mok THEN m
    ELSE LET cm == check_cluster_membership(m, answer.membership)
             rr == refresh_rows(cm.m, answer.nodeinfo, cm.memberships,
                                DOMAIN cm.m.m_nodes_by_id, 1)
             m1 == IF nok
                   THEN [set_not_found(rr.m, rr.nids, 1)
                            EXCEPT !.check_required = FALSE]
                   ELSE cm.m
         IN update_http_urls(m1)

\* check_http, the loop over the results, from node id on
RECURSIVE apply_results(_, _, _)
apply_results(m, results, id) ==
    IF id > MaxNodes THEN m
    ELSE IF id \notin DOMAIN m.m_nodes_by_id
         THEN apply_results(m, results, id + 1)
    ELSE LET running == results[id]
             m1 == set_running(m, id, running, "APPROACH_DEFAULT")
             m2 == IF ~running /\ ~is_running(m1.m_nodes_by_id[id])
                   THEN [m1 EXCEPT !.check_required = TRUE]
                   ELSE m1
         IN apply_results(m2, results, id + 1)

\* ClustrixMonitor::update_server_statuses for the bootstrap server
update_server_statuses(m) ==
    LET at == {id \in DOMAIN m.m_nodes_by_id :
                  m.m_nodes_by_id[id].m_ip = BootstrapIp}
        first == CHOOSE id \in at : \A other \in at : id <= other
    IN IF at # {} /\ is_running(m.m_nodes_by_id[first])
       THEN [m EXCEPT !.bootstrap_status = @ \cup RunningBits]
       ELSE [m EXCEPT !.bootstrap_status = @ \ RunningBits]

\* ClustrixMonitor::make_health_check; status is what get_async returns
make_health_check(m, status) ==
    [m EXCEPT !.m_http = [status |-> status, urls |-> m.m_health_urls],
              !.m_delayed_http_check_id = (status = "PENDING")]

\* the failed pings of each node since its last successful one, after a
\* health check round with these results
failed_pings(m, results) ==
    [id \in NodeIds |->
        IF id \notin DOMAIN results THEN m.fails[id]
        ELSE IF results[id] THEN 0
        ELSE IF m.fails[id] > m.health_check_threshold THEN m.fails[id]
        ELSE m.fails[id] + 1]

\* the monitor as constructed and configured
NewMonitor(threshold, creatable, answer) ==
    [health_check_threshold |-> threshold,
     server_creatable |-> creatable,
     hub |-> answer,
     m_nodes_by_id |-> <<>>,
     servers |-> <<>>,
     service_servers |-> {},
     bootstrap_status |-> {},
     db |-> <<>>,
     m_health_urls |-> <<>>,
     m_http |-> NoHttp,
     m_delayed_http_check_id |-> FALSE,
     check_required |-> FALSE,
     fails |-> [id \in NodeIds |-> 0],
     last |-> NoOperation]

InitMon ==
    /\ conn = [d \in Conns |-> NewConn]
    /\ m_dcbs = {}
    /\ m_persistent_entries = <<>>
    /\ m_evicting = FALSE
    /\ m_zombies = <<>>
    /\ n_persistent = 0
    /\ server_running = TRUE
    /\ now = 0
    /\ last_call = NoCall
    /\ shared = <<>>
    /\ reader = <<>>
    /\ \E threshold \in 1..MaxThreshold : \E creatable \in BOOLEAN :
       \E answer \in HubAnswers :
          mon = NewMonitor(threshold, creatable, answer)

\* the cluster changes: from now on the hub answers differently about one
\* node, in system.membership or in system.nodeinfo
HubChanges ==
    /\ \E id \in NodeIds :
          \E answer \in
              { [mon.hub EXCEPT !.membership = @ \cup {id}],
                [mon.hub EXCEPT !.membership = @ \ {id}],
                [mon.hub EXCEPT !.nodeinfo = Without(@, {id})] }
              \cup { [mon.hub EXCEPT !.nodeinfo = With(@, id, row)] :
                        row \in NodeInfoRows } :
             /\ answer # mon.hub
             /\ mon' = [mon EXCEPT !.hub = answer,
                                    !.last = [NoOperation EXCEPT
                                                 !.op = "hub_changes"]]
    /\ UNCHANGED <<poolvars, last_call, shared, reader>>

\* tick, its first half: check_cluster with a hub that can be used
CheckCluster ==
    /\ \E mok \in BOOLEAN : \E nok \in BOOLEAN :
          /\ ~mok => ~nok
          /\ LET repeat == /\ mon.last.op = "refresh_nodes"
                           /\ mon.last.mok = mok
                           /\ mon.last.nok = nok
                 m == [mon EXCEPT !.last = [NoOperation EXCEPT
                                               !.op = "refresh_nodes",
                                               !.mok = mok, !.nok = nok,
                                               !.repeat = repeat]]
             IN mon' = refresh_nodes(m, mon.hub, mok, nok)
    /\ UNCHANGED <<poolvars, last_call, shared, reader>>

\* tick, its second half: the statuses of the monitored servers are
\* updated and the next round of health checks is launched
TickHealth ==
    /\ mon.m_http.status # "PENDING"
    /\ \E status \in {"PENDING", "READY", "ERROR"} :
          LET m == [mon EXCEPT !.last = [NoOperation EXCEPT !.op = "tick"]]
              m1 == IF mon.m_http.status = "READY"
                    THEN update_server_statuses(m)
                    ELSE m
          IN mon' = make_health_check(m1, status)
    /\ UNCHANGED <<poolvars, last_call, shared, reader>>

\* the delayed call of check_http
CheckHttp ==
    /\ mon.m_delayed_http_check_id
    /\ \E status \in {"PENDING", "READY", "ERROR"} :
       \E results \in [DOMAIN mon.m_nodes_by_id -> BOOLEAN] :
          /\ status # "READY" => \A id \in DOMAIN results : results[id]
          /\ LET m == [mon EXCEPT
                          !.m_delayed_http_check_id = (status = "PENDING"),
                          !.m_http.status = status,
                          !.last = [NoOperation EXCEPT
                                       !.op = "check_http",
                                       !.results =
                                           IF status = "READY" THEN results
                                           ELSE <<>>,
                                       !.was_running =
                                           {id \in DOMAIN mon.m_nodes_by_id :
                                              is_running(mon.m_nodes_by_id[id])}]]
             IN mon' = IF status = "READY"
                       THEN [apply_results(m, results, 1)
                                EXCEPT !.fails = failed_pings(mon, results)]
                       ELSE m
    /\ UNCHANGED <<poolvars, last_call, shared, reader>>

\* an operation that takes the statement to have succeeded when there is a
\* hub and the server is monitored
perform_operation_unchecked(m, operation, id, has_hub, hub_ok, mok, nok, qok) ==
    LET m0 == [m EXCEPT !.last = [NoOperation EXCEPT
                                     !.op = operation, !.target = id,
                                     !.mok = ~has_hub /\ hub_ok /\ mok,
                                     !.nok = ~has_hub /\ hub_ok /\ nok]]
        m1 == IF ~has_hub /\ hub_ok
              THEN refresh_nodes(m0, m0.hub, mok, nok)
              ELSE m0
        done == /\ has_hub \/ hub_ok
                /\ id \in DOMAIN m1.m_nodes_by_id
        m2 == IF ~done THEN m1
              ELSE IF operation = "SOFTFAIL"
              THEN set_status(m1, id, DrainingBits)
              ELSE clear_status(m1, id, DrainingBits)
    IN [m2 EXCEPT !.last.altered = done /\ qok]

\* ClustrixMonitor::perform_operation on the server of node id.  has_hub:
\* m_pHub_con is set at the call; hub_ok: choose_hub finds a hub; mok, nok:
\* the two queries of refresh_nodes succeed; qok: ALTER CLUSTER succeeds.
perform_operation(m, operation, id, has_hub, hub_ok, mok, nok, qok) ==
    LET m0 == [m EXCEPT !.last = [NoOperation EXCEPT
                                     !.op = operation, !.target = id,
                                     !.mok = ~has_hub /\ hub_ok /\ mok,
                                     !.nok = ~has_hub /\ hub_ok /\ nok]]
        m1 == IF ~has_hub /\ hub_ok
              THEN refresh_nodes(m0, m0.hub, mok, nok)
              ELSE m0
        done == /\ has_hub \/ hub_ok
                /\ id \in DOMAIN m1.m_nodes_by_id
                /\ qok
        m2 == IF ~done THEN m1
              ELSE IF operation = "SOFTFAIL"
              THEN set_status(m1, id, DrainingBits)
              ELSE clear_status(m1, id, DrainingBits)
    IN [m2 EXCEPT !.last.altered = done]

\* ClustrixMonitor::perform_softfail and perform_unsoftfail, called for a
\* server that exists
PerformOperation ==
    /\ \E operation \in {"SOFTFAIL", "UNSOFTFAIL"} :
       \E id \in DOMAIN mon.servers :
       \E has_hub \in BOOLEAN, hub_ok \in BOOLEAN, qok \in BOOLEAN :
       \E mok \in BOOLEAN, nok \in BOOLEAN :
          /\ hub_ok => ~has_hub      \* choose_hub runs only without a hub
          /\ mok => hub_ok           \* refresh_nodes runs only with a new hub
          /\ nok => mok
          /\ qok => has_hub \/ hub_ok
          /\ LET m == perform_operation(mon, operation, id, has_hub, hub_ok,
                                        mok, nok, qok)
             IN mon' = IF operation = "SOFTFAIL"
                       THEN [m EXCEPT !.check_required = TRUE]
                       ELSE m
    /\ UNCHANGED <<poolvars, last_call, shared, reader>>

NextMon == HubChanges \/ CheckCluster \/ TickHealth \/ CheckHttp \/ PerformOperation

SpecMon == InitMon /\ [][NextMon]_vars

----------------------------------------------------------------------------
(* Properties of the monitor *)

\* C6: with health_check_threshold T a node that is running has failed
\* fewer than T health pings since its last successful one and its
\* countdown is T less these; a successful ping sets the countdown to T; a
\* failed ping on a running node takes it down exactly when it is the T-th
\* since the last successful one, and then RUNNING is cleared on its server
\* and unpersist has been called once; a failed ping on a node that is down
\* calls unpersist not at all
C6_NotRunningAtThresholdPing ==
    \A id \in DOMAIN mon.m_nodes_by_id :
        LET node == mon.m_nodes_by_id[id]
            T == node.m_health_check_threshold
            status == mon.servers[id].status
            calls == mon.last.unpersist[id]
        IN /\ is_running(node) =>
                 /\ mon.fails[id] < T
                 /\ node.m_nRunning = T - mon.fails[id]
           /\ (mon.last.op = "check_http" /\ id \in DOMAIN mon.last.results) =>
                 IF mon.last.results[id]
                 THEN node.m_nRunning = T /\ mon.fails[id] = 0 /\ calls = 0
                 ELSE IF id \in mon.last.was_running
                 THEN /\ is_running(node) <=> mon.fails[id] < T
                      /\ is_running(node) =>
                            "SERVER_RUNNING" \in status /\ calls = 0
                      /\ ~is_running(node) =>
                            /\ "SERVER_RUNNING" \notin status
                            /\ calls = 1
                            /\ id \notin DOMAIN mon.db
                 ELSE ~is_running(node) /\ calls = 0

\* with the largest threshold the last of as many failed pings has just
\* taken a node down
C6_Witness ==
    /\ mon.last.op = "check_http"
    /\ \E id \in DOMAIN mon.last.results :
          /\ ~mon.last.results[id]
          /\ id \in mon.last.was_running
          /\ mon.health_check_threshold = MaxThreshold
          /\ mon.fails[id] = MaxThreshold
          /\ ~is_running(mon.m_nodes_by_id[id])
          /\ mon.last.unpersist[id] = 1

\* C7: a refresh that follows a refresh, with the same answers of the hub
\* to both queries, leaves the set of nodes as it is and changes no status
\* bit of any server
C7_SecondRefreshChangesNothing ==
    [][ (mon'.last.op = "refresh_nodes" /\ mon'.last.repeat) =>
            /\ DOMAIN mon'.m_nodes_by_id = DOMAIN mon.m_nodes_by_id
            /\ DOMAIN mon'.servers = DOMAIN mon.servers
            /\ \A id \in DOMAIN mon.servers :
                   mon'.servers[id].status = mon.servers[id].status
            /\ mon'.bootstrap_status = mon.bootstrap_status ]_vars

\* the second of two refreshes has been made, both queries succeeding, for
\* a member that system.nodeinfo does not list: the first one has taken
\* the node down
C7_Witness ==
    /\ mon.last.op = "refresh_nodes"
    /\ mon.last.repeat /\ mon.last.mok /\ mon.last.nok
    /\ mon.health_check_threshold = MaxThreshold
    /\ \E id \in DOMAIN mon.m_nodes_by_id :
          /\ id \in mon.hub.membership
          /\ id \notin DOMAIN mon.hub.nodeinfo
          /\ ~is_running(mon.m_nodes_by_id[id])

\* C12: a packet that the session writes while the protocol is being set up
\* is stored and not sent; the read event that gets through SEND_DELAYQ to
\* ROUTING sends every stored packet of the session once, in the order in
\* which they were written, and leaves nothing stored
C12_DelayedSentOnceInOrder ==
    [][LET p == conn[1]
           q == conn'[1]
           Delaying(c) == c.exists /\ c.m_state \notin {"ROUTING", "FAILED"}
       IN /\ Delaying(p) /\ q.nwritten = p.nwritten + 1 =>
               /\ q.m_delayed_packets # <<>>
               /\ q.m_delayed_packets[Len(q.m_delayed_packets)].id = q.nwritten
               /\ q.sent = p.sent
          /\ Delaying(q) /\ ~q.reused => q.sent = <<>>
          /\ Delaying(p) /\ Live(1) /\ q.m_state = "ROUTING" =>
               /\ q.sent = p.sent \o IdsOf(p.m_delayed_packets)
               /\ q.m_delayed_packets = <<>>]_vars

\* C13: in every state in which the protocol is FAILED, write of a command
\* packet returns 0 and changes nothing: nothing goes out to the backend,
\* nothing is added to m_delayed_packets or m_stored_query
C13_WriteFailsWhenFailed ==
    conn[1].exists /\ conn[1].m_state = "FAILED" =>
       \A cmd \in {"COM_QUERY", "COM_QUIT"} :
          LET r == write(conn[1], <<CmdPkt(cmd, 1, FALSE, 0, 1, "cur")>>)
          IN r.rc = 0 /\ r.p = conn[1]

\* the session has written a COM_QUERY to a connection whose set-up has
\* failed: the write was not accepted and the packet is nowhere
C13_Witness ==
    /\ Live(1) /\ conn[1].m_state = "FAILED"
    /\ conn[1].nwritten > 0 /\ ~conn[1].quit
    /\ conn[1].accepted = <<>>
    /\ conn[1].m_delayed_packets = <<>> /\ conn[1].out = <<>>

\* C14: the reply to a ping that ping() has sent is never passed on to the
\* client of the session, whatever the state of the protocol was when
\* ping() was called
C14_PingReplySwallowed ==
    \A d \in Conns : ~conn[d].ponged

\* C15: while the reply to a COM_STMT_PREPARE is read, with an OK packet
\* that carries ncol columns and nprm parameters, the reply state is START
\* before the OK packet, PREPARE after it and after each of the packets that
\* follow but the last, and DONE after
\* ncol + nprm + (1 if ncol > 0) + (1 if nprm > 0) further packets; DONE
\* right after the OK packet when that number is 0
C15_PrepareCountsDefinitions ==
    reader # <<>> /\ reader.start.reply_command = "COM_STMT_PREPARE" =>
       LET ok == reader.stream[1]
           n == ok.ncol + ok.nprm + (IF ok.ncol > 0 THEN 1 ELSE 0)
                                  + (IF ok.nprm > 0 THEN 1 ELSE 0)
           k == Len(reader.calls)
       IN /\ Len(reader.stream) = 1 + n
          /\ k = 0 => reader.p.reply_state = "START"
          /\ k > 0 /\ k < 1 + n =>
                reader.p.reply_state = "PREPARE" /\ reader.p.m_ps_packets = 1 + n - k
          /\ k = 1 + n => reader.p.reply_state = "DONE"

\* the whole reply to the preparation of a statement with MaxDefs columns
\* and one parameter has been read
C15_Witness ==
    /\ reader # <<>> /\ reader.start.reply_command = "COM_STMT_PREPARE"
    /\ reader.stream[1].ncol = MaxDefs /\ reader.stream[1].nprm = 1
    /\ Len(reader.calls) = MaxDefs + 4
    /\ reader.p.reply_state = "DONE"

----------------------------------------------------------------------------
(* Specification SpecAccept: the epoll instance that the workers share for *)
(* the listening sockets.  The kernel keeps, for every socket of the set,  *)
(* the events it was added with; a level-triggered socket is ready while a *)
(* connection is pending on it, an edge-triggered one from the arrival of  *)
(* a connection until the event has been handed out.  Every worker has the *)
(* shared instance in its own epoll set, level-triggered.                  *)

NumWorkers == 2      \* routing workers
NumListeners == 2    \* listening sockets
MaxClients == 2      \* clients that connect

Workers == 1..NumWorkers
Listeners == 1..NumListeners

\* an add that hands the events to epoll_ctl as they were asked for
add_shared_fd_as_requested(sh, fd, events) ==
    [sh EXCEPT !.events[fd] = events,
               !.edge[fd] = ("EPOLLET" \in events) /\ sh.backlog[fd] > 0]

\* RoutingWorker::add_shared_fd
add_shared_fd(sh, fd, events) ==
    LET ev == events \ {"EPOLLET"}
    IN [sh EXCEPT !.events[fd] = ev,
                  !.edge[fd] = ("EPOLLET" \in ev) /\ sh.backlog[fd] > 0]

\* the sockets for which epoll_wait on the shared instance has an event
epoll_ready(sh) ==
    {fd \in Listeners :
        /\ "EPOLLIN" \in sh.events[fd]
        /\ IF "EPOLLET" \in sh.events[fd] THEN sh.edge[fd] ELSE sh.backlog[fd] > 0}

InitAccept ==
    /\ conn = [d \in Conns |-> NewConn]
    /\ m_dcbs = {}
    /\ m_persistent_entries = <<>>
    /\ m_evicting = FALSE
    /\ m_zombies = <<>>
    /\ n_persistent = 0
    /\ server_running = TRUE
    /\ now = 0
    /\ last_call = NoCall
    /\ reader = <<>>
    /\ mon = <<>>
    /\ shared = [events |-> [fd \in Listeners |-> {}],
                 backlog |-> [fd \in Listeners |-> 0],
                 edge |-> [fd \in Listeners |-> FALSE],
                 pos |-> [w \in Workers |-> "epoll_wait"],
                 fd |-> [w \in Workers |-> 0],
                 clients |-> 0,       \* clients that have connected
                 burst |-> FALSE]     \* two connections were pending on an added socket

beside_shared == <<poolvars, last_call, reader, mon>>

\* a listener is started: its socket is added to the shared instance
AddSharedFd(fd) ==
    /\ shared.events[fd] = {}
    /\ \E events \in {{"EPOLLIN"}, {"EPOLLIN", "EPOLLET"}} :
          shared' = add_shared_fd(shared, fd, events)
    /\ UNCHANGED beside_shared

\* a client connects to a listening socket
ClientConnects(fd) ==
    /\ shared.clients < MaxClients
    /\ shared' = [shared EXCEPT
                    !.clients = @ + 1,
                    !.backlog[fd] = @ + 1,
                    !.edge[fd] = "EPOLLET" \in shared.events[fd],
                    !.burst = @ \/ (shared.events[fd] # {} /\ shared.backlog[fd] >= 1)]
    /\ UNCHANGED beside_shared

\* epoll_wait of worker w returns with the event of the shared instance
Wake(w) ==
    /\ shared.pos[w] = "epoll_wait"
    /\ epoll_ready(shared) # {}
    /\ shared' = [shared EXCEPT !.pos[w] = "handle_epoll_events"]
    /\ UNCHANGED beside_shared

\* RoutingWorker::handle_epoll_events up to the call of the handler: one
\* event, if there still is one, is taken from the shared instance
HandleEpollEvents(w) ==
    /\ shared.pos[w] = "handle_epoll_events"
    /\ IF epoll_ready(shared) = {}
       THEN shared' = [shared EXCEPT !.pos[w] = "epoll_wait"]
       ELSE \E fd \in epoll_ready(shared) :
               shared' = [shared EXCEPT !.pos[w] = "handler", !.fd[w] = fd,
                                        !.edge[fd] = FALSE]
    /\ UNCHANGED beside_shared

\* the handler of the listener: one accept, which finds a connection unless
\* another worker has taken it; the worker goes back to epoll_wait
AcceptOne(w) ==
    /\ shared.pos[w] = "handler"
    /\ LET fd == shared.fd[w]
       IN shared' = [shared EXCEPT
                       !.pos[w] = "epoll_wait", !.fd[w] = 0,
                       !.backlog[fd] = IF @ > 0 THEN @ - 1 ELSE @]
    /\ UNCHANGED beside_shared

\* a worker other than the first gets busy with a session and does not
\* return to epoll_wait
Stall(w) ==
    /\ w # 1
    /\ shared.pos[w] # "busy"
    /\ shared' = [shared EXCEPT !.pos[w] = "busy"]
    /\ UNCHANGED beside_shared

NextAccept ==
    \/ \E fd \in Listeners : AddSharedFd(fd)
    \/ \E fd \in Listeners : ClientConnects(fd)
    \/ \E w \in Workers : Wake(w)
    \/ \E w \in Workers : HandleEpollEvents(w)
    \/ \E w \in Workers : AcceptOne(w)
    \/ \E w \in Workers : Stall(w)

\* the first worker keeps returning to epoll_wait
SpecAccept ==
    /\ InitAccept /\ [][NextAccept]_vars
    /\ WF_vars(Wake(1))
    /\ WF_vars(HandleEpollEvents(1))
    /\ WF_vars(AcceptOne(1))

\* C16: a connection that is pending on a socket of the shared instance is
\* accepted in the end, as long as one worker keeps returning to epoll_wait:
\* every added socket on which connections are pending gets to have none
C16_PendingEventuallyAccepted ==
    \A fd \in Listeners :
        (shared.events[fd] # {} /\ shared.backlog[fd] > 0)
           ~> (shared.backlog[fd] = 0)

\* two connections were pending at once on a socket of the shared instance,
\* a worker is busy, and every connection has been accepted
C16_Witness ==
    /\ shared # <<>>
    /\ shared.burst /\ shared.clients = MaxClients
    /\ \A fd \in Listeners : shared.backlog[fd] = 0
    /\ \E w \in Workers : shared.pos[w] = "busy"

\* C17: a softfail request leaves SERVER_DRAINING set on its server, and an
\* unsoftfail request leaves it cleared, when ALTER CLUSTER was executed on
\* the hub; in every other case (no hub, server not the server of a node,
\* statement failed) the bit is after the request what it was before
C17_DrainingFollowsAlterCluster ==
    [][mon'.last.op \in {"SOFTFAIL", "UNSOFTFAIL"} =>
          LET id == mon'.last.target
              before == "SERVER_DRAINING" \in mon.servers[id].status
              after == "SERVER_DRAINING" \in mon'.servers[id].status
          IN IF mon'.last.altered
             THEN after = (mon'.last.op = "SOFTFAIL")
             ELSE after = before]_vars

\* C17 as the code has it: as above, but a request that finds the monitor
\* without a hub connection runs check_cluster first, and when that finds a
\* hub and both queries of its refresh_nodes succeed, the bit of a server
\* that system.nodeinfo lists may have been set or cleared to agree with
\* system.softfailed_nodes although ALTER CLUSTER was not executed
C17_DrainingFollowsAlterOrRefresh ==
    [][mon'.last.op \in {"SOFTFAIL", "UNSOFTFAIL"} =>
          LET id == mon'.last.target
              before == "SERVER_DRAINING" \in mon.servers[id].status
              after == "SERVER_DRAINING" \in mon'.servers[id].status
              refreshed == /\ mon'.last.mok /\ mon'.last.nok
                           /\ id \in DOMAIN mon.hub.nodeinfo
          IN IF mon'.last.altered
             THEN after = (mon'.last.op = "SOFTFAIL")
             ELSE \/ after = before
                  \/ refreshed /\ after = mon.hub.nodeinfo[id].softfailed]_vars

\* a softfail whose ALTER CLUSTER was executed on the hub connection that
\* the monitor had has set SERVER_DRAINING on the server of a running node
\* that system.softfailed_nodes does not list
C17_Witness ==
    /\ mon.last.op = "SOFTFAIL" /\ mon.last.altered /\ ~mon.last.mok
    /\ mon.last.target \in DOMAIN mon.m_nodes_by_id
    /\ is_running(mon.m_nodes_by_id[mon.last.target])
    /\ "SERVER_DRAINING" \in mon.servers[mon.last.target].status
    /\ mon.last.target \in DOMAIN mon.hub.nodeinfo
    /\ ~mon.hub.nodeinfo[mon.last.target].softfailed

----------------------------------------------------------------------------
(* Specification SpecStatus: one server, as created, and the calls that    *)
(* set and clear bits of its status.  mon holds the server and the call    *)
(* made last: its name, its argument and the status before it.             *)

\* bits of the status of a server
StatusBits ==
    {"SERVER_RUNNING", "SERVER_MASTER", "SERVER_SLAVE", "SERVER_MAINT",
     "SERVER_DRAINING"}

\* ServerManager::create_server: m_status {0}
InitStatus ==
    /\ conn = [d \in Conns |-> NewConn]
    /\ m_dcbs = {}
    /\ m_persistent_entries = <<>>
    /\ m_evicting = FALSE
    /\ m_zombies = <<>>
    /\ n_persistent = 0
    /\ server_running = TRUE
    /\ now = 0
    /\ last_call = NoCall
    /\ shared = <<>>
    /\ reader = <<>>
    /\ mon = [servers |-> <<[active |-> TRUE, status |-> {},
                             address |-> BootstrapIp,
                             port |-> DEFAULT_MYSQL_PORT]>>,
              last |-> [op |-> "create_server", bits |-> {}, before |-> {}]]

\* server->set_status(bits)
SetStatus ==
    /\ \E bits \in SUBSET StatusBits :
          mon' = [set_status(mon, 1, bits) EXCEPT
                     !.last = [op |-> "set_status", bits |-> bits,
                               before |-> mon.servers[1].status]]
    /\ UNCHANGED <<poolvars, last_call, shared, reader>>

\* server->clear_status(bits)
ClearStatus ==
    /\ \E bits \in SUBSET StatusBits :
          mon' = [clear_status(mon, 1, bits) EXCEPT
                     !.last = [op |-> "clear_status", bits |-> bits,
                               before |-> mon.servers[1].status]]
    /\ UNCHANGED <<poolvars, last_call, shared, reader>>

NextStatus == SetStatus \/ ClearStatus

SpecStatus == InitStatus /\ [][NextStatus]_vars

\* C18: a server that has just been created has no status bit set; after
\* set_status(bits) every bit of bits is set and after clear_status(bits)
\* every bit of bits is cleared, and every bit that is not in bits is as it
\* was before the call; set_status(RUNNING|MASTER) followed by
\* clear_status(MASTER) on a new server leaves exactly RUNNING set
C18_StatusBitsFrame ==
    LET status == mon.servers[1].status
        call == mon.last
        created == [mon EXCEPT !.servers[1].status = {}]
    IN /\ call.op = "create_server" => status = {}
       /\ call.op = "set_status" => \A b \in call.bits : b \in status
       /\ call.op = "clear_status" => \A b \in call.bits : b \notin status
       /\ \A b \in StatusBits \ call.bits : b \in status <=> b \in call.before
       /\ clear_status(set_status(created, 1, {"SERVER_RUNNING", "SERVER_MASTER"}),
                       1, {"SERVER_MASTER"}).servers[1].status = {"SERVER_RUNNING"}

\* SERVER_MASTER has been cleared on a server that was Master, Running and
\* draining: it is Running and draining
C18_Witness ==
    /\ mon.last.op = "clear_status"
    /\ mon.last.bits = {"SERVER_MASTER"}
    /\ mon.last.before = {"SERVER_RUNNING", "SERVER_MASTER", "SERVER_DRAINING"}
    /\ mon.servers[1].status = {"SERVER_RUNNING", "SERVER_DRAINING"}

\* C19: a DCB that has been closed is in m_dcbs, whichever way it was
\* closed, so that RoutingWorker::remove finds it when the DCB is destroyed
C19_ClosedDcbIsRegistered ==
    \A d \in Conns : conn[d].exists /\ ~conn[d].open => d \in m_dcbs

\* C20: n_persistent of the server is the number of its connections that
\* the pool of the worker holds
C20_NPersistentCountsPool ==
    n_persistent = Len(m_persistent_entries)

----------------------------------------------------------------------------
(* Specification SpecSetup: one backend connection that has sent its       *)
(* handshake response and reads the replies of the backend in the states   *)
(* AUTHENTICATING and CONNECTION_INIT.  The variable reader holds          *)
(*   p        the connection                                               *)
(*   queries  connection_init_sql().queries.size()                         *)
(*   status   m_init_query_status                                          *)
(*   sock     complete packets at the socket, by their kind                *)
(*   at       where the worker is: "epoll", or inside the call of          *)
(*            send_connection_init_queries ("while", "after")             *)
(*   rval     the local rval of send_connection_init_queries               *)
(*   errors   calls of do_handle_error made                                *)
(*   last     the last call of authenticate                                *)

MaxInitQueries == 2   \* configured connection init queries
MaxSetupPackets == 3  \* packets the backend sends during the set-up

\* what authenticate and send_connection_init_queries tell packets by:
\* first byte 0x00, first byte 0xff, another first byte, no payload
SetupPackets == {"OK", "ERR", "OTHER", "EMPTY"}

\* MariaDBBackendConnection::do_handle_error; errmsg is the text, the number
\* of the init query that it names, if any, and the packet that it names
do_handle_error(s, errmsg, type) ==
    [s EXCEPT !.errors = @ \cup {<<errmsg, type>>}]

\* mariadb::read_protocol_packet: false when the read fails, else the next
\* complete packet, or no buffer when none is complete
read_protocol_packet(s, ok) ==
    IF ok /\ s.sock # <<>>
    THEN [ok |-> TRUE, buffer |-> Head(s.sock), s |-> [s EXCEPT !.sock = Tail(@)]]
    ELSE [ok |-> ok, buffer |-> "NONE", s |-> s]

\* MariaDBBackendConnection::authenticate, that passes every packet with a
\* payload to the authenticator
authenticate_any_packet(s, ok, res) ==
    LET r == read_protocol_packet(s, ok)
        t == [r.s EXCEPT !.last = [buffer |-> r.buffer, ok |-> r.ok, res |-> res,
                                   exchange |-> r.buffer \in {"OTHER", "EMPTY"}]]
    IN CASE ~r.ok -> [s |-> do_handle_error(t, <<"Socket error", 0, "NONE">>, "TRANSIENT"),
                      rval |-> "ERROR"]
         [] r.ok /\ r.buffer = "NONE" -> [s |-> t, rval |-> "IN_PROGRESS"]
         [] r.ok /\ r.buffer = "OK" -> [s |-> t, rval |-> "DONE"]
         [] r.ok /\ r.buffer = "ERR" -> [s |-> t, rval |-> "ERROR"]
         [] OTHER -> [s |-> t,
                      rval |-> IF res = "SUCCESS" THEN "IN_PROGRESS" ELSE "ERROR"]

\* MariaDBBackendConnection::authenticate; res is what the authenticator's
\* exchange returns should it be called
authenticate(s, ok, res) ==
    LET r == read_protocol_packet(s, ok)
        t == [r.s EXCEPT !.last = [buffer |-> r.buffer, ok |-> r.ok, res |-> res,
                                   exchange |-> r.buffer = "OTHER"]]
    IN CASE ~r.ok -> [s |-> do_handle_error(t, <<"Socket error", 0, "NONE">>, "TRANSIENT"),
                      rval |-> "ERROR"]
         [] r.ok /\ r.buffer = "NONE" -> [s |-> t, rval |-> "IN_PROGRESS"]
         [] r.ok /\ r.buffer = "EMPTY" ->
                [s |-> do_handle_error(t, <<"Invalid packet", 0, "EMPTY">>, "TRANSIENT"),
                 rval |-> "ERROR"]
         [] r.ok /\ r.buffer = "OK" -> [s |-> t, rval |-> "DONE"]
         [] r.ok /\ r.buffer = "ERR" -> [s |-> t, rval |-> "ERROR"]
         [] OTHER -> [s |-> t,
                      rval |-> IF res = "SUCCESS" THEN "IN_PROGRESS" ELSE "ERROR"]

\* send_connection_init_queries, case SENDING
send_init_queries(s) ==
    IF s.queries = 0 THEN [s |-> s, rval |-> "DONE"]
    ELSE [s |-> [s EXCEPT !.p = writeq_append(@, <<CmdPkt("COM_QUERY", s.queries,
                                                        FALSE, 0, 0, "syn")>>),
                          !.status = [state |-> "RECEIVING",
                                      ok_packets_expected |-> s.queries,
                                      ok_packets_received |-> 0]],
          rval |-> "IN_PROGRESS"]

\* send_connection_init_queries, case RECEIVING: the body of the loop, run
\* once; at is "after" when it leaves the loop with break
receive_init_reply(s, ok) ==
    LET r == read_protocol_packet(s, ok)
    IN CASE ~r.ok -> do_handle_error(r.s, <<"Socket error", 0, "NONE">>, "TRANSIENT")
         [] r.ok /\ r.buffer = "NONE" -> [r.s EXCEPT !.rval = "IN_PROGRESS"]
         [] r.ok /\ r.buffer = "OK" ->
                [r.s EXCEPT !.status.ok_packets_received = @ + 1]
         [] OTHER ->
                [do_handle_error(r.s, <<"Connection initialization query",
                                        r.s.status.ok_packets_received + 1,
                                        r.buffer>>, "PERMANENT")
                   EXCEPT !.at = "after"]

\* send_connection_init_queries, case RECEIVING, after the loop, and the
\* switch on its result in ready_for_reading
init_queries_return(s) ==
    LET rval == IF s.status.ok_packets_received = s.status.ok_packets_expected
                THEN "DONE" ELSE s.rval
    IN [s EXCEPT !.rval = rval, !.at = "epoll",
                 !.p = ready_for_reading(@, "DONE", "DONE", rval)]

InitSetup ==
    /\ conn = [d \in Conns |-> NewConn]
    /\ m_dcbs = {}
    /\ m_persistent_entries = <<>>
    /\ m_evicting = FALSE
    /\ m_zombies = <<>>
    /\ n_persistent = 0
    /\ server_running = TRUE
    /\ now = 0
    /\ last_call = NoCall
    /\ shared = <<>>
    /\ mon = <<>>
    /\ \E n \in 0..MaxInitQueries :
          reader = [p |-> [NewConn EXCEPT !.exists = TRUE, !.open = TRUE,
                                          !.dcb_state = "POLLING",
                                          !.has_session = TRUE,
                                          !.m_state = "AUTHENTICATING"],
                    queries |-> n,
                    status |-> [state |-> "SENDING", ok_packets_expected |-> 0,
                                ok_packets_received |-> 0],
                    sock |-> <<>>, sent |-> 0, at |-> "epoll", rval |-> "ERROR",
                    errors |-> {},
                    last |-> [buffer |-> "NONE", ok |-> TRUE, res |-> "NONE",
                              exchange |-> FALSE]]

beside_reader == <<poolvars, last_call, shared, mon>>

\* the backend sends a packet
SetupArrive ==
    /\ reader.sent < MaxSetupPackets
    /\ \E k \in SetupPackets :
          reader' = [reader EXCEPT !.sock = Append(@, k), !.sent = @ + 1]
    /\ UNCHANGED beside_reader

\* EPOLLIN in state AUTHENTICATING: ready_for_reading calls authenticate
\* and, when that is done, send_connection_init_queries
AuthReadEvent ==
    /\ reader.at = "epoll"
    /\ reader.p.m_state = "AUTHENTICATING"
    /\ \E ok \in BOOLEAN, res \in {"SUCCESS", "FAIL"} :
          LET a == authenticate(reader, ok, res)
              i == IF a.rval = "DONE" THEN send_init_queries(a.s)
                   ELSE [s |-> a.s, rval |-> "ERROR"]
          IN reader' = [i.s EXCEPT !.p = ready_for_reading(@, "DONE", a.rval, i.rval)]
    /\ UNCHANGED beside_reader

\* EPOLLIN in state CONNECTION_INIT: ready_for_reading calls
\* send_connection_init_queries, which is in its case RECEIVING
InitReadEvent ==
    /\ reader.at = "epoll"
    /\ reader.p.m_state = "CONNECTION_INIT"
    /\ reader' = [reader EXCEPT !.at = "while", !.rval = "ERROR"]
    /\ UNCHANGED beside_reader

\* one turn of the loop of case RECEIVING
InitReceive ==
    /\ reader.at = "while"
    /\ reader.status.ok_packets_received < reader.status.ok_packets_expected
    /\ \E ok \in BOOLEAN : reader' = receive_init_reply(reader, ok)
    /\ UNCHANGED beside_reader

\* the loop of case RECEIVING has ended
InitReturn ==
    /\ \/ reader.at = "after"
       \/ /\ reader.at = "while"
          /\ reader.status.ok_packets_received >= reader.status.ok_packets_expected
    /\ reader' = init_queries_return(reader)
    /\ UNCHANGED beside_reader

NextSetup ==
    SetupArrive \/ AuthReadEvent \/ InitReadEvent \/ InitReceive \/ InitReturn

\* the worker thread runs: a call of send_connection_init_queries that can
\* take a step takes it
SpecSetup ==
    InitSetup /\ [][NextSetup]_vars /\ WF_vars(InitReceive) /\ WF_vars(InitReturn)

\* C21: a call of send_connection_init_queries in its case RECEIVING
\* returns to the event loop
C21_InitStepReturns == (reader.at # "epoll") ~> (reader.at = "epoll")

\* C23: the connection leaves CONNECTION_INIT for SEND_DELAYQ (and goes on
\* to ROUTING in the same call) only when as many OK packets have been
\* received as there are init queries, and a reply to query k that is not
\* an OK packet makes the call end in state FAILED, a permanent error that
\* names query k having been reported
C23_InitQueriesAllOkOrFailed ==
    [][/\ reader.p.m_state = "CONNECTION_INIT"
          /\ reader'.p.m_state \in {"SEND_DELAYQ", "ROUTING"}
          => /\ reader.queries >= 1
             /\ reader'.status.ok_packets_received = reader.queries
       /\ reader.at = "after" /\ reader'.at = "epoll"
          => /\ reader'.p.m_state = "FAILED"
             /\ \E kind \in SetupPackets \ {"OK"} :
                   <<<<"Connection initialization query",
                       reader.status.ok_packets_received + 1, kind>>,
                     "PERMANENT">> \in reader.errors]_vars

\* the packet that a call of authenticate finds at the socket
AuthPacket == IF reader.sock = <<>> THEN "NONE" ELSE Head(reader.sock)

\* a call of ready_for_reading in state AUTHENTICATING whose read succeeds
AuthStep ==
    /\ reader.p.m_state = "AUTHENTICATING"
    /\ reader.at = "epoll"
    /\ reader'.sent = reader.sent
    /\ reader'.last.ok
    /\ reader'.last.buffer = AuthPacket

\* the state in which the call leaves a connection that authenticate has
\* moved to CONNECTION_INIT: without init queries it goes on to ROUTING
AfterAuthOk == IF reader.queries = 0 THEN "ROUTING" ELSE "CONNECTION_INIT"

\* C25 as stated: in state AUTHENTICATING an OK packet moves the connection
\* to CONNECTION_INIT, an ERR packet to FAILED, every other complete packet
\* is passed to the authenticator's exchange and the state stays
\* AUTHENTICATING when that reports success and becomes FAILED otherwise;
\* without a complete packet the state does not change
C25_AuthPacketDecidesState ==
    [][AuthStep =>
         CASE AuthPacket = "NONE" -> reader'.p.m_state = "AUTHENTICATING"
           [] AuthPacket = "OK" -> reader'.p.m_state = AfterAuthOk
           [] AuthPacket = "ERR" -> reader'.p.m_state = "FAILED"
           [] OTHER ->
                /\ reader'.last.exchange
                /\ reader'.p.m_state = IF reader'.last.res = "SUCCESS"
                                       THEN "AUTHENTICATING" ELSE "FAILED"]_vars

\* C25 amended: as stated, but a packet without payload is not passed to the
\* authenticator: it makes the connection FAILED, "Invalid packet" being
\* reported
C25_AuthPacketDecidesStateUnlessEmpty ==
    [][AuthStep =>
         CASE AuthPacket = "NONE" -> reader'.p.m_state = "AUTHENTICATING"
           [] AuthPacket = "OK" -> reader'.p.m_state = AfterAuthOk
           [] AuthPacket = "ERR" -> reader'.p.m_state = "FAILED"
           [] AuthPacket = "EMPTY" ->
                /\ ~reader'.last.exchange
                /\ reader'.p.m_state = "FAILED"
                /\ <<<<"Invalid packet", 0, "EMPTY">>, "TRANSIENT">> \in reader'.errors
           [] OTHER ->
                /\ reader'.last.exchange
                /\ reader'.p.m_state = IF reader'.last.res = "SUCCESS"
                                       THEN "AUTHENTICATING" ELSE "FAILED"]_vars

\* a packet without payload has been read in state AUTHENTICATING with an
\* authenticator that would have reported success: the connection is FAILED
C25_Witness ==
    /\ reader.last.buffer = "EMPTY"
    /\ reader.last.res = "SUCCESS"
    /\ ~reader.last.exchange
    /\ reader.p.m_state = "FAILED"
    /\ reader.status.state = "SENDING"

----------------------------------------------------------------------------
(* Properties of the reply state machine over several commands (SpecReply) *)

\* a read that takes exactly one packet and calls process_one_packet for it
OnePacketRead ==
    /\ Len(reader'.calls) = Len(reader.calls) + 1
    /\ reader'.calls[Len(reader'.calls)]

\* C22: a reply is taken to end with the EOF packet of its column
\* definitions only if it answers a COM_STMT_EXECUTE with a flag byte other
\* than zero
C22_CursorEndsOnlyItsOwnReply ==
    [][/\ OnePacketRead
       /\ reader.p.reply_state = "RSET_COLDEF_EOF"
       /\ reader'.p.reply_state = "DONE"
       => reader.cmd.cmd = "COM_STMT_EXECUTE" /\ reader.cmd.flag # 0]_vars

\* C24: in reply state RSET_ROWS a packet for which process_one_packet is
\* called gives DONE when it is an EOF packet without
\* SERVER_MORE_RESULTS_EXIST or an ERR packet, START when it is an EOF
\* packet with SERVER_MORE_RESULTS_EXIST, and else leaves the state
\* RSET_ROWS and adds one to the number of rows; the number of rows changes
\* in no other case
C24_RowsEndAtEofOrErr ==
    [][OnePacketRead /\ reader.p.reply_state = "RSET_ROWS" =>
         LET pkt == reader.stream[Len(reader'.calls)]
             eof == pkt.cmd = "FE"
                      /\ pkt.len + MYSQL_HEADER_LEN = MYSQL_EOF_PACKET_LEN
             rows == reader.p.reply_rows
         IN CASE eof /\ ~pkt.more ->
                   reader'.p.reply_state = "DONE" /\ reader'.p.reply_rows = rows
              [] eof /\ pkt.more ->
                   reader'.p.reply_state = "START" /\ reader'.p.reply_rows = rows
              [] ~eof /\ pkt.cmd = "ERR" ->
                   reader'.p.reply_state = "DONE" /\ reader'.p.reply_rows = rows
              [] OTHER ->
                   reader'.p.reply_state = "RSET_ROWS"
                     /\ reader'.p.reply_rows = rows + 1]_vars

\* the first resultset of a reply to COM_QUERY has been read to its EOF
\* packet, which announces more results: one row counted, reply state START
C24_Witness ==
    /\ reader # <<>>
    /\ reader.cmd.cmd = "COM_QUERY"
    /\ Len(reader.calls) = 5
    /\ reader.stream[5].cmd = "FE" /\ reader.stream[5].more
    /\ reader.p.reply_state = "START"
    /\ reader.p.reply_rows = 1
    /\ ~reader.start.m_opening_cursor

----------------------------------------------------------------------------
(* Properties of the sweeps and evictions of the pool (Spec)               *)

\* C26: in the state that an expiry sweep (evict_dcbs with Evict::EXPIRED,
\* as Server::cleanup_persistent_connections runs it) leaves, whenever it
\* is run, no entry of the pool of the worker was created
\* more than persistmaxtime seconds ago, none is hung up, none is left at
\* all when the server is not running, and every DCB that the sweep took
\* out of the pool has been closed and queued for destruction
C26_SweepLeavesOnlyFreshEntries ==
    LET w == evict_dcbs(World, "EXPIRED").w
        left == {w.entries[i].dcb : i \in 1..Len(w.entries)}
    IN /\ \A i \in 1..Len(w.entries) :
             /\ now - w.entries[i].created <= PoolMaxTime
             /\ ~w.conn[w.entries[i].dcb].hanged_up
       /\ ~server_running => w.entries = <<>>
       /\ \A d \in PoolDcbs \ left :
             /\ ~w.conn[d].open
             /\ \E i \in 1..Len(w.zombies) : w.zombies[i] = d

\* an expiry sweep has closed the only entry of the pool, which had expired
\* while the server was running, after putting it back into m_dcbs
C26_Witness ==
    /\ server_running
    /\ now > PoolMaxTime
    /\ m_persistent_entries = <<>>
    /\ n_persistent = 0
    /\ \E d \in Conns :
          /\ conn[d].exists /\ ~conn[d].open /\ conn[d].handler = "pool"
          /\ m_zombies = <<d>>
          /\ d \in m_dcbs

----------------------------------------------------------------------------
(* Specification SpecTick: the event loop of one worker.  epoll_wait       *)
(* returns a batch of events, each event is handled in turn (a message     *)
(* that carries a rebalance request, or I/O on a DCB of a session), and    *)
(* epoll_tick runs: process_timeouts, delete_zombies, the registered       *)
(* functions, rebalance.  The worker is held in the variable shared, its   *)
(* DCBs and its zombie queue in m_dcbs and m_zombies:                      *)
(*   pos          where the thread is                                      *)
(*   events       events of the last epoll_wait that are still to be       *)
(*                handled, first first                                     *)
(*   m_sessions   ids of the sessions in the session registry              *)
(*   movable      Session::is_movable of every session                     *)
(*   io_activity  Session::io_activity of every session                    *)
(*   m_rebalance  the recorded rebalance request                           *)
(*   moved        the sessions moved so far and their destinations         *)
(*   enqueued     the DCBs that the destructions of the running            *)
(*                delete_zombies have put on the zombie queue              *)

NumSessions == 3     \* sessions of the worker
NumTickDcbs == 3     \* DCBs of the worker
MaxEvents == 2       \* events one epoll_wait returns
MaxActivity == 2     \* I/O events counted for one session
MaxMoves == 2        \* sessions one rebalance request asks for

Sessions == 1..NumSessions
TickDcbs == 1..NumTickDcbs

\* the worker the sessions are moved to
OtherWorker == 2

RebalanceMessage(pTo, nSessions) ==
    [kind |-> "msg", session |-> 0, pTo |-> pTo, nSessions |-> nSessions]

IoEvent(s) == [kind |-> "io", session |-> s, pTo |-> 0, nSessions |-> 0]

\* the orders in which the session registry can be iterated
SessionOrders ==
    {o \in [1..NumSessions -> Sessions] :
        \A i, j \in 1..NumSessions : o[i] = o[j] => i = j}

\* m_rebalance.reset()
NoRebalance == [perform |-> FALSE, pTo |-> 0, nSessions |-> 0]

\* pSession->move_to(pTo): the session leaves this worker
move_to(w, s, pTo) ==
    [w EXCEPT !.m_sessions = @ \ {s},
              !.moved = Append(@, [session |-> s, to |-> pTo])]

RECURSIVE move_all(_,_,_)
move_all(w, sessions, pTo) ==
    IF sessions = <<>> THEN w
    ELSE move_all(move_to(w, Head(sessions), pTo), Tail(sessions), pTo)

\* the loop of rebalance() for one requested move: the session that is kept
\* in pMax_session when the registry has been iterated in the given order
\* (0: nullptr)
RECURSIVE most_active(_,_,_,_)
most_active(w, order, max_io_activity, pMax_session) ==
    IF order = <<>> THEN pMax_session
    ELSE LET s == Head(order)
         IN IF s \in w.m_sessions /\ w.movable[s]
                /\ w.io_activity[s] > max_io_activity
            THEN most_active(w, Tail(order), w.io_activity[s], s)
            ELSE most_active(w, Tail(order), max_io_activity, pMax_session)

\* the loop of rebalance() for several requested moves: the movable sessions
\* that are collected, at most n of them
RECURSIVE first_movable(_,_,_,_)
first_movable(w, order, n, sessions) ==
    IF order = <<>> \/ Len(sessions) = n THEN sessions
    ELSE LET s == Head(order)
         IN first_movable(w, Tail(order), n,
                          IF s \in w.m_sessions /\ w.movable[s]
                          THEN Append(sessions, s) ELSE sessions)

\* a request that is executed when it is delivered
rebalance_to_at_once(w, pTo, nSessions) ==
    move_all(w, first_movable(w, [i \in 1..NumSessions |-> i], nSessions, <<>>),
             pTo)

\* RoutingWorker::rebalance(RoutingWorker* pTo, int nSessions):
\* m_rebalance.set(pTo, nSessions), nothing else
rebalance_to(w, pTo, nSessions) ==
    [w EXCEPT !.m_rebalance =
                  [perform |-> TRUE, pTo |-> pTo, nSessions |-> nSessions]]

\* RoutingWorker::rebalance(): order is the order in which m_sessions is
\* iterated
rebalance(w, order) ==
    LET n_requested_moves == w.m_rebalance.nSessions
        pMax_session == most_active(w, order, 0, 0)
        sessions ==
            IF n_requested_moves = 1
            THEN IF pMax_session # 0 THEN <<pMax_session>> ELSE <<>>
            ELSE IF n_requested_moves > 1
                 THEN first_movable(w, order, n_requested_moves, <<>>)
                 ELSE <<>>
    IN [move_all(w, sessions, w.m_rebalance.pTo) EXCEPT
           !.m_rebalance = NoRebalance]

\* the DCBs in a queue
Queued(zs) == {zs[i] : i \in 1..Len(zs)}

\* the DCBs of a set in the order of their numbers
RECURSIVE InOrder(_)
InOrder(ds) ==
    IF ds = {} THEN <<>>
    ELSE LET d == CHOOSE x \in ds : \A y \in ds : x <= y
         IN <<d>> \o InOrder(ds \ {d})

\* the DCBs that can still be closed: those that are not zombies yet
Closable(w) == w.dcbs \ Queued(w.zombies)

\* DCBs are closed: RoutingWorker::destroy is called for each of them
RECURSIVE destroy_all(_,_)
destroy_all(w, ds) ==
    IF ds = <<>> THEN w ELSE destroy_all(destroy(w, Head(ds)), Tail(ds))

\* a loop that leaves the last zombie in the queue
zombies_empty_or_one(zs) == Len(zs) <= 1

\* m_zombies.empty(), the condition of the loop of delete_zombies
zombies_empty(zs) == zs = <<>>

\* one turn of the loop of delete_zombies: m_zombies.back(), pop_back() and
\* DCB::Manager::call_destroy, which removes the DCB from the worker and
\* whose final close can call destroy for the DCBs in more
delete_zombie(w, more) ==
    LET pDcb == w.zombies[Len(w.zombies)]
        popped == [w EXCEPT !.zombies = SubSeq(@, 1, Len(@) - 1),
                            !.dcbs = @ \ {pDcb}]
    IN destroy_all(popped, InOrder(more))

InitTick ==
    /\ conn = [d \in Conns |-> NewConn]
    /\ m_dcbs = TickDcbs
    /\ m_persistent_entries = <<>>
    /\ m_evicting = FALSE
    /\ m_zombies = <<>>
    /\ n_persistent = 0
    /\ server_running = TRUE
    /\ now = 0
    /\ last_call = NoCall
    /\ reader = <<>>
    /\ mon = <<>>
    /\ shared = [pos |-> "epoll_wait",
                 events |-> <<>>,
                 m_sessions |-> Sessions,
                 movable |-> [s \in Sessions |-> TRUE],
                 io_activity |-> [s \in Sessions |-> 0],
                 m_rebalance |-> NoRebalance,
                 moved |-> <<>>,
                 enqueued |-> {}]

beside_tick ==
    <<conn, m_persistent_entries, m_evicting, n_persistent, server_running,
      now, last_call, reader, mon>>

\* the events epoll_wait can return
TickEvents ==
    {RebalanceMessage(OtherWorker, n) : n \in 0..MaxMoves}
        \cup {IoEvent(s) : s \in shared.m_sessions}

\* the number of events for session s in a batch
RECURSIVE IoCount(_,_)
IoCount(evs, s) ==
    IF evs = <<>> THEN 0
    ELSE (IF Head(evs) = IoEvent(s) THEN 1 ELSE 0) + IoCount(Tail(evs), s)

\* epoll_wait returns
EpollWait ==
    /\ shared.pos = "epoll_wait"
    /\ \E n \in 0..MaxEvents : \E evs \in [1..n -> TickEvents] :
          /\ \A s \in Sessions :
                shared.io_activity[s] + IoCount(evs, s) <= MaxActivity
          /\ shared' = [shared EXCEPT !.events = evs,
                                      !.pos = IF n = 0 THEN "timeouts"
                                              ELSE "events"]
    /\ UNCHANGED <<m_dcbs, m_zombies, beside_tick>>

\* the next event is handled: a message runs rebalance(pTo, nSessions);
\* I/O on a DCB of a session is counted for the session, the router may
\* change its mind about the session being movable, and DCBs may be closed
HandleEvent ==
    /\ shared.pos = "events"
    /\ LET ev == Head(shared.events)
           pos == IF Len(shared.events) = 1 THEN "timeouts" ELSE "events"
       IN IF ev.kind = "msg"
          THEN /\ shared' = [rebalance_to(shared, ev.pTo, ev.nSessions) EXCEPT
                                !.events = Tail(@), !.pos = pos]
               /\ UNCHANGED <<m_dcbs, m_zombies>>
          ELSE \E is_movable \in BOOLEAN, ds \in SUBSET Closable(World) :
                 /\ Cardinality(ds) <= 1
                 /\ shared' = [shared EXCEPT
                                  !.events = Tail(@), !.pos = pos,
                                  !.io_activity[ev.session] = @ + 1,
                                  !.movable[ev.session] = is_movable]
                 /\ m_zombies' = destroy_all(World, InOrder(ds)).zombies
                 /\ UNCHANGED m_dcbs
    /\ UNCHANGED beside_tick

\* RoutingWorker::process_timeouts: sessions that have been idle for too
\* long are disconnected, which closes DCBs
ProcessTimeouts ==
    /\ shared.pos = "timeouts"
    /\ \E ds \in SUBSET Closable(World) :
          /\ Cardinality(ds) <= 1
          /\ m_zombies' = destroy_all(World, InOrder(ds)).zombies
    /\ shared' = [shared EXCEPT !.pos = "zombies"]
    /\ UNCHANGED <<m_dcbs, beside_tick>>

\* one turn of the loop of delete_zombies
DestroyZombie ==
    /\ shared.pos = "zombies"
    /\ ~zombies_empty(m_zombies)
    /\ \E more \in SUBSET (Closable(World)) :
          LET w == delete_zombie(World, more)
          IN /\ m_dcbs' = w.dcbs
             /\ m_zombies' = w.zombies
             /\ shared' = [shared EXCEPT !.enqueued = @ \cup more]
    /\ UNCHANGED beside_tick

\* delete_zombies returns
ZombiesDone ==
    /\ shared.pos = "zombies"
    /\ zombies_empty(m_zombies)
    /\ shared' = [shared EXCEPT !.pos = "funcs"]
    /\ UNCHANGED <<m_dcbs, m_zombies, beside_tick>>

\* the functions of m_epoll_tick_funcs are called
TickFuncs ==
    /\ shared.pos = "funcs"
    /\ shared' = [shared EXCEPT !.pos = "rebalance", !.enqueued = {}]
    /\ UNCHANGED <<m_dcbs, m_zombies, beside_tick>>

\* if (m_rebalance.perform) rebalance(); epoll_tick returns
RebalanceStep ==
    /\ shared.pos = "rebalance"
    /\ IF shared.m_rebalance.perform
       THEN \E order \in SessionOrders :
               shared' = [rebalance(shared, order) EXCEPT !.pos = "epoll_wait"]
       ELSE shared' = [shared EXCEPT !.pos = "epoll_wait"]
    /\ UNCHANGED <<m_dcbs, m_zombies, beside_tick>>

NextTick ==
    \/ EpollWait
    \/ HandleEvent
    \/ ProcessTimeouts
    \/ DestroyZombie
    \/ ZombiesDone
    \/ TickFuncs
    \/ RebalanceStep

\* the worker thread runs: delete_zombies takes the steps it can take
SpecTick ==
    InitTick /\ [][NextTick]_vars /\ WF_vars(DestroyZombie) /\ WF_vars(ZombiesDone)

\* C28: when delete_zombies returns the zombie queue is empty and the DCBs
\* that destructions put on the queue during the call have been destroyed
\* as well, and a call of delete_zombies returns
C28_ZombieQueueDrained ==
    /\ [](shared.pos = "funcs" =>
             /\ m_zombies = <<>>
             /\ shared.enqueued \cap m_dcbs = {})
    /\ (shared.pos = "zombies") ~> (shared.pos = "funcs")

\* delete_zombies has returned after a destruction had put two further
\* DCBs on the queue
C28_Witness ==
    /\ shared.pos = "funcs"
    /\ Cardinality(shared.enqueued) = 2
    /\ m_zombies = <<>>
    /\ m_dcbs = {}

\* the sessions that a step takes out of the session registry
MovedInStep == shared.m_sessions \ shared'.m_sessions

\* a message with a rebalance request is the next event to be handled
AtRebalanceMessage ==
    /\ shared.pos = "events"
    /\ Head(shared.events).kind = "msg"

\* C29: handling a rebalance message records the request and moves no
\* session; sessions are moved only in the rebalance step of epoll_tick,
\* when no event of the last epoll_wait is left to be handled, and only if
\* a request is recorded; after the rebalance step no request is recorded
C29_RebalanceOnlyInTick ==
    /\ [][AtRebalanceMessage =>
             /\ MovedInStep = {}
             /\ shared'.moved = shared.moved
             /\ shared'.m_rebalance =
                   [perform |-> TRUE, pTo |-> Head(shared.events).pTo,
                    nSessions |-> Head(shared.events).nSessions]]_vars
    /\ [][MovedInStep # {} =>
             /\ shared.pos = "rebalance"
             /\ shared.events = <<>>
             /\ shared.m_rebalance.perform]_vars
    /\ [](shared.pos = "epoll_wait" => shared.m_rebalance = NoRebalance)

\* a recorded request has been executed in the tick that followed the
\* message, and has moved a session
C29_Witness ==
    /\ shared.pos = "epoll_wait"
    /\ shared.m_rebalance = NoRebalance
    /\ shared.moved # <<>>

\* the movable sessions of the worker
Movable == {s \in shared.m_sessions : shared.movable[s]}

\* a rebalance step that executes a request for k sessions
ExecutesRequest(k) ==
    /\ shared.pos = "rebalance"
    /\ shared.m_rebalance.perform
    /\ shared.m_rebalance.nSessions = k
    /\ shared'.pos = "epoll_wait"

\* C30: a rebalance step that executes a request for one session while a
\* session is movable moves exactly one session, a movable one whose I/O
\* activity is the greatest among the movable ones; and no rebalance step
\* moves a session that is not movable
C30_MostActiveMovableMoved ==
    /\ [][ExecutesRequest(1) /\ Movable # {} =>
             \E s \in Movable :
                /\ MovedInStep = {s}
                /\ \A o \in Movable :
                      shared.io_activity[o] <= shared.io_activity[s]]_vars
    /\ [][MovedInStep \subseteq Movable]_vars

----------------------------------------------------------------------------
(* Specification SpecBalance: the coordinator's calls of                   *)
(* RoutingWorker::balance_workers.  The variable last_call holds the last  *)
(* call: the loads of the workers (percent), the configured                *)
(* rebalance_threshold, whether the worker accepted the posted task, and   *)
(* what the call did.                                                      *)

NumBalanced == 3     \* workers whose loads are compared

Balanced == 1..NumBalanced

\* loads of a worker, in percent
Loads == {0, 30, 60, 100}

\* values of rebalance_threshold
Thresholds == {0, 30, 50}

\* the loop of balance_workers(int) over the workers i..nWorkers
RECURSIVE balance_scan(_,_,_)
balance_scan(load, i, st) ==
    IF i > NumBalanced THEN st
    ELSE LET lo == IF load[i] < st.min_load
                   THEN [st EXCEPT !.min_load = load[i], !.pTo = i] ELSE st
             hi == IF load[i] > lo.max_load
                   THEN [lo EXCEPT !.max_load = load[i], !.pFrom = i] ELSE lo
         IN balance_scan(load, i + 1, hi)

\* a comparison that also balances at the threshold
exceeds_threshold_or_equal(diff_load, threshold) == diff_load >= threshold

\* diff_load > threshold
exceeds_threshold(diff_load, threshold) == diff_load > threshold

\* RoutingWorker::balance_workers(int threshold); posted: the task was
\* accepted by pFrom->execute
balance_workers_threshold(load, threshold, posted) ==
    LET st == balance_scan(load, 1,
                 [min_load |-> 100, max_load |-> 0, pTo |-> 0, pFrom |-> 0])
        balancing == exceeds_threshold(st.max_load - st.min_load, threshold)
    IN [balancing |-> balancing,
        message |-> IF balancing /\ posted
                    THEN [to |-> st.pFrom, pTo |-> st.pTo, nSessions |-> 1]
                    ELSE [to |-> 0, pTo |-> 0, nSessions |-> 0]]

\* RoutingWorker::balance_workers()
balance_workers(load, threshold, posted) ==
    IF threshold # 0 THEN balance_workers_threshold(load, threshold, posted)
    ELSE [balancing |-> FALSE,
          message |-> [to |-> 0, pTo |-> 0, nSessions |-> 0]]

InitBalance ==
    /\ conn = [d \in Conns |-> NewConn]
    /\ m_dcbs = {}
    /\ m_persistent_entries = <<>>
    /\ m_evicting = FALSE
    /\ m_zombies = <<>>
    /\ n_persistent = 0
    /\ server_running = TRUE
    /\ now = 0
    /\ shared = <<>>
    /\ reader = <<>>
    /\ mon = <<>>
    /\ last_call = NoCall

\* the coordinator's tick calls balance_workers()
BalanceWorkers ==
    /\ \E load \in [Balanced -> Loads], threshold \in Thresholds,
          posted \in BOOLEAN :
          last_call' = [op |-> "balance_workers", load |-> load,
                        threshold |-> threshold, posted |-> posted,
                        result |-> balance_workers(load, threshold, posted)]
    /\ UNCHANGED <<poolvars, shared, reader, mon>>

NextBalance == BalanceWorkers

SpecBalance == InitBalance /\ [][NextBalance]_vars

\* the greatest and the smallest load in a call
MaxLoad(load) == CHOOSE x \in Loads :
    (\E i \in Balanced : load[i] = x) /\ (\A i \in Balanced : load[i] <= x)

MinLoad(load) == CHOOSE x \in Loads :
    (\E i \in Balanced : load[i] = x) /\ (\A i \in Balanced : load[i] >= x)

\* the call has posted a request to a worker of the highest load that names
\* a worker of the lowest load
PostedFromMaxToMin ==
    LET msg == last_call.result.message
    IN /\ msg.to \in Balanced /\ msg.pTo \in Balanced
       /\ last_call.load[msg.to] = MaxLoad(last_call.load)
       /\ last_call.load[msg.pTo] = MinLoad(last_call.load)

\* C31 as stated: a request is posted to the worker of the highest load,
\* naming the worker of the lowest load, if and only if the difference of
\* the two loads is greater than rebalance_threshold
C31_PostedIffOverThreshold ==
    last_call.op = "balance_workers" =>
        /\ last_call.result.message.to # 0 <=>
              MaxLoad(last_call.load) - MinLoad(last_call.load)
                  > last_call.threshold
        /\ last_call.result.message.to # 0 => PostedFromMaxToMin

\* C31, amended: the same, if and only if moreover rebalance_threshold is
\* not 0 and the worker accepted the task
C31_PostedIffEnabledAndOverThreshold ==
    last_call.op = "balance_workers" =>
        /\ last_call.result.message.to # 0 <=>
              /\ last_call.threshold # 0
              /\ MaxLoad(last_call.load) - MinLoad(last_call.load)
                    > last_call.threshold
              /\ last_call.posted
        /\ last_call.result.message.to # 0 => PostedFromMaxToMin

\* a request has been posted for loads that differ by more than the
\* threshold, two workers sharing the highest load
C31_Witness ==
    /\ last_call.op = "balance_workers"
    /\ last_call.threshold = 30
    /\ last_call.load = <<0, 60, 60>>
    /\ last_call.result.message = [to |-> 2, pTo |-> 1, nSessions |-> 1]

----------------------------------------------------------------------------
(* Specification SpecShutdown: one worker from start_shutdown until it     *)
(* leaves its event loop.  Session d of the worker, if there is one, has   *)
(* the backend DCB d; the pool and the DCBs are those of Spec.  The        *)
(* variable shared holds                                                   *)
(*   m_sessions       the session registry                                 *)
(*   delayed          the delayed call of try_shutdown is registered       *)
(*   should_shutdown  Worker::shutdown has been called                     *)
(*   killed           the sessions for which kill() has been called        *)
(*   attempts         what the calls of try_shutdown found: "none" before  *)
(*                    the first, then "sessions" or "empty" for the last   *)

\* a worker without DCBs
IdleWorld ==
    [conn |-> [d \in Conns |-> NewConn], dcbs |-> {}, entries |-> <<>>,
     evicting |-> FALSE, zombies |-> <<>>, n_persistent |-> 0]

\* session d has connected to the server and its connection is in use
with_session(w, d) ==
    [create_backend_connection(w, d) EXCEPT !.conn[d].m_state = "ROUTING"]

\* the worker in which the sessions of ss are open and the connections of
\* the closed sessions of ps are in the pool
RECURSIVE populated(_,_,_)
populated(w, ss, ps) ==
    IF ss # {} THEN LET d == CHOOSE x \in ss : TRUE
                    IN populated(with_session(w, d), ss \ {d}, ps)
    ELSE IF ps # {} THEN LET d == CHOOSE x \in ps : TRUE
                         IN populated(move_to_pool(with_session(w, d), d), ss,
                                      ps \ {d})
    ELSE w

\* an attempt that shuts the worker down whatever sessions it has
try_shutdown_at_once(w, sh) ==
    [w |-> evict_dcbs(w, "ALL").w,
     sh |-> [sh EXCEPT !.should_shutdown = TRUE, !.attempts = "empty"]]

\* RoutingWorker::try_shutdown(Call::EXECUTE)
try_shutdown(w, sh) ==
    [w |-> evict_dcbs(w, "ALL").w,
     sh |-> IF sh.m_sessions = {}
            THEN [sh EXCEPT !.should_shutdown = TRUE, !.attempts = "empty"]
            ELSE [sh EXCEPT !.killed = @ \cup sh.m_sessions,
                            !.attempts = "sessions"]]

InitShutdown ==
    /\ now = 0
    /\ server_running = TRUE
    /\ last_call = NoCall
    /\ reader = <<>>
    /\ mon = <<>>
    /\ \E ss \in SUBSET Conns : \E ps \in SUBSET (Conns \ ss) :
          /\ Cardinality(ps) <= PoolMax
          /\ LET w == populated(IdleWorld, ss, ps)
             IN /\ conn = w.conn
                /\ m_dcbs = w.dcbs
                /\ m_persistent_entries = w.entries
                /\ m_evicting = w.evicting
                /\ m_zombies = w.zombies
                /\ n_persistent = w.n_persistent
          /\ shared = [m_sessions |-> ss, delayed |-> FALSE,
                       should_shutdown |-> FALSE, killed |-> {},
                       attempts |-> "none"]

\* RoutingWorker::start_shutdown: the broadcast task runs on the worker
StartShutdown ==
    /\ ~shared.delayed
    /\ shared' = [shared EXCEPT !.delayed = TRUE]
    /\ UNCHANGED <<poolvars, last_call, reader, mon>>

\* 100 ms have passed: the delayed call is made, and as it returns true it
\* stays registered
TryShutdown ==
    /\ shared.delayed
    /\ ~shared.should_shutdown
    /\ LET t == try_shutdown(World, shared)
       IN Commit(t.w) /\ shared' = t.sh
    /\ UNCHANGED <<server_running, now, last_call, reader, mon>>

\* a session ends, because its client has gone or because it was killed:
\* its backend DCB is closed and the session leaves the registry
SessionCloses(d) ==
    /\ ~shared.should_shutdown
    /\ d \in shared.m_sessions
    /\ \E valid \in BOOLEAN : Commit(DCB_close(World, d, valid))
    /\ shared' = [shared EXCEPT !.m_sessions = @ \ {d}]
    /\ UNCHANGED <<server_running, now, last_call, reader, mon>>

\* a second passes
ShutdownTick ==
    /\ ~shared.should_shutdown
    /\ now < MaxTime
    /\ now' = now + 1
    /\ UNCHANGED <<conn, m_dcbs, m_persistent_entries, m_evicting, m_zombies,
                   n_persistent, server_running, last_call, shared, reader, mon>>

NextShutdown ==
    \/ StartShutdown
    \/ TryShutdown
    \/ \E d \in Conns : SessionCloses(d)
    \/ ShutdownTick

\* the worker thread runs: a delayed call that is due is made
SpecShutdown == InitShutdown /\ [][NextShutdown]_vars /\ WF_vars(TryShutdown)

\* C32: an attempt, in whatever state the worker is when the delayed call
\* is due, leaves the pool empty; it makes the worker leave its
\* loop if and only if the registry is empty, and otherwise kills every
\* session in the registry; the worker never leaves its loop with sessions
\* registered, and once shutdown has been started and the registry is
\* empty it leaves its loop
C32_ExitsWhenSessionsGone ==
    /\ [](shared.delayed /\ ~shared.should_shutdown =>
             LET t == try_shutdown(World, shared)
             IN /\ t.w.entries = <<>>
                /\ t.sh.should_shutdown <=> shared.m_sessions = {}
                /\ t.sh.m_sessions = shared.m_sessions
                /\ shared.m_sessions # {} =>
                      shared.m_sessions \subseteq t.sh.killed)
    /\ [](shared.should_shutdown =>
             shared.m_sessions = {} /\ m_persistent_entries = <<>>)
    /\ (shared.delayed /\ shared.m_sessions = {}) ~> shared.should_shutdown

\* the worker has left its loop after an attempt that found sessions and
\* killed them, and a connection of theirs that went to the pool afterwards
\* has been evicted by the last attempt
C32_Witness ==
    /\ shared.should_shutdown
    /\ shared.killed = Conns
    /\ shared.m_sessions = {}
    /\ \E d \in Conns : conn[d].handler = "pool" /\ ~conn[d].open

----------------------------------------------------------------------------
(* Properties of the monitor's membership refresh and of its bookkeeping   *)
(* (SpecMon)                                                               *)

\* the step is a refresh_nodes of check_cluster, both of whose queries
\* succeeded
RefreshedNodes ==
    /\ mon'.last.op = "refresh_nodes"
    /\ mon'.last.mok
    /\ mon'.last.nok

\* C33: after a successful refresh the server of every node that was known
\* and is not in the hub's system.membership is not active and has
\* SERVER_RUNNING cleared
C33_AbsentNodesDownAndDeactivated ==
    [][RefreshedNodes =>
          \A id \in (DOMAIN mon.m_nodes_by_id) \ mon.hub.membership :
             /\ ~mon'.servers[id].active
             /\ "SERVER_RUNNING" \notin mon'.servers[id].status]_vars

----------------------------------------------------------------------------
(* Specification SpecBoot: the sqlite database of the Clustrix monitor     *)
(* over several runs of MaxScale.  The variable mon holds                  *)
(*   db       the tables bootstrap_nodes (rows "ip:port") and              *)
(*            dynamic_nodes (node id -> the bootstrap servers the monitor  *)
(*            was configured with when it wrote the row)                   *)
(*   servers  the configured bootstrap servers, {} before configure        *)
(*   last     the step taken last, and for configure the tables before it  *)
(*            and whether its SQL statements succeeded                     *)

MaxDynamic == 2      \* node ids that can be persisted

\* servers a monitor can be configured with, as "address:port"
BootServers == {"10.0.0.1:3306", "10.0.0.2:3306"}

\* ClustrixMonitor::remove_persisted_information; rv1, rv2: the two DELETE
\* statements succeed
remove_persisted_information(db, rv1, rv2) ==
    [db |-> [bootstrap_nodes |-> IF rv1 THEN {} ELSE db.bootstrap_nodes,
             dynamic_nodes |-> IF rv2 THEN <<>> ELSE db.dynamic_nodes],
     rv |-> rv1 /\ rv2]

\* ClustrixMonitor::persist_bootstrap_servers; ok: the INSERT succeeds
persist_bootstrap_servers(db, servers, ok) ==
    IF servers # {} /\ ok
    THEN [db EXCEPT !.bootstrap_nodes = @ \cup servers]
    ELSE db

\* ClustrixMonitor::check_bootstrap_servers; select_ok: the SELECT succeeds
check_bootstrap_servers(db, servers, select_ok, rv1, rv2, ok) ==
    IF ~select_ok THEN db
    ELSE LET prev_bootstrap_servers == db.bootstrap_nodes
             current_bootstrap_servers == servers
         IN IF prev_bootstrap_servers = current_bootstrap_servers THEN db
            ELSE IF prev_bootstrap_servers # {}
            THEN LET r == remove_persisted_information(db, rv1, rv2)
                 IN IF r.rv THEN persist_bootstrap_servers(r.db, servers, ok)
                    ELSE r.db
            ELSE db

NoConfigure ==
    [op |-> "none", before |-> [bootstrap_nodes |-> {}, dynamic_nodes |-> <<>>],
     sql_ok |-> FALSE]

\* MaxScale is started for the first time with a database file that an
\* earlier installation may have left
InitBoot ==
    /\ conn = [d \in Conns |-> NewConn]
    /\ m_dcbs = {}
    /\ m_persistent_entries = <<>>
    /\ m_evicting = FALSE
    /\ m_zombies = <<>>
    /\ n_persistent = 0
    /\ server_running = TRUE
    /\ now = 0
    /\ last_call = NoCall
    /\ shared = <<>>
    /\ reader = <<>>
    /\ \E prev \in SUBSET BootServers :
          mon = [db |-> [bootstrap_nodes |-> prev, dynamic_nodes |-> <<>>],
                 servers |-> {},
                 last |-> NoConfigure]

\* MaxScale starts: ClustrixMonitor::configure
Configure ==
    /\ mon.servers = {}
    /\ \E servers \in (SUBSET BootServers) \ {{}} :
       \E select_ok \in BOOLEAN, rv1 \in BOOLEAN, rv2 \in BOOLEAN, ok \in BOOLEAN :
          mon' = [db |-> check_bootstrap_servers(mon.db, servers, select_ok,
                                                 rv1, rv2, ok),
                  servers |-> servers,
                  last |-> [op |-> "configure", before |-> mon.db,
                            sql_ok |-> select_ok /\ rv1 /\ rv2 /\ ok]]
    /\ UNCHANGED <<poolvars, last_call, shared, reader>>

\* the running monitor persists a node of the cluster it has found through
\* its bootstrap servers
PersistNode ==
    /\ mon.servers # {}
    /\ \E id \in 1..MaxDynamic :
          mon' = [mon EXCEPT !.db.dynamic_nodes = With(@, id, mon.servers),
                             !.last = [NoConfigure EXCEPT !.op = "persist"]]
    /\ UNCHANGED <<poolvars, last_call, shared, reader>>

\* the running monitor unpersists a node
UnpersistNode ==
    /\ mon.servers # {}
    /\ \E id \in DOMAIN mon.db.dynamic_nodes :
          mon' = [mon EXCEPT !.db.dynamic_nodes = Without(@, {id}),
                             !.last = [NoConfigure EXCEPT !.op = "unpersist"]]
    /\ UNCHANGED <<poolvars, last_call, shared, reader>>

\* MaxScale stops; its configuration may be changed before the next start
StopMaxScale ==
    /\ mon.servers # {}
    /\ mon' = [mon EXCEPT !.servers = {},
                          !.last = [NoConfigure EXCEPT !.op = "stop"]]
    /\ UNCHANGED <<poolvars, last_call, shared, reader>>

NextBoot == Configure \/ PersistNode \/ UnpersistNode \/ StopMaxScale

SpecBoot == InitBoot /\ [][NextBoot]_vars

\* C34: after a configure whose SQL statements succeeded, if the persisted
\* bootstrap servers differed from the configured ones (an empty persisted
\* set differs too) no row of either table is left from before, so that
\* every dynamic node in the database was persisted under the configured
\* bootstrap servers; if they were equal both tables are as they were
C34_DifferentBootstrapWipes ==
    (mon.last.op = "configure" /\ mon.last.sql_ok) =>
        IF mon.last.before.bootstrap_nodes # mon.servers
        THEN /\ mon.db.dynamic_nodes = <<>>
             /\ mon.db.bootstrap_nodes \subseteq mon.servers
        ELSE mon.db = mon.last.before

----------------------------------------------------------------------------
(* Specification SpecHub: calls of ClustrixMonitor::choose_hub.  The       *)
(* variable last_call holds the last call:                                 *)
(*   nodes      m_nodes_by_id at the call, as the addresses of the nodes   *)
(*              in the order of their ids                                  *)
(*   servers    the configured bootstrap servers, in their order           *)
(*   persisted  the rows of dynamic_nodes, in the order of the SELECT      *)
(*   accepts    the addresses at which a server can be connected to and    *)
(*              is part of the quorum                                      *)
(*   found      the nodes that refresh_nodes finds through a persisted     *)
(*              node, and refreshed, whether its queries succeed           *)
(*   hub        the hub chosen, if any, and whether it is a dynamic node   *)
(*              or a bootstrap server                                      *)

MaxHubNodes == 2     \* dynamic nodes and bootstrap servers at a call
MaxPersisted == 2    \* rows of dynamic_nodes at a call

HubIps == {"10.0.0.1", "10.0.0.2"}
HubPorts == {DEFAULT_MYSQL_PORT, DEFAULT_MYSQL_PORT + 1}
Endpoints == [ip : HubIps, port : HubPorts]

\* sequences of up to n different addresses
EndpointSeqs(n) ==
    UNION { {q \in [1..k -> Endpoints] :
                \A i, j \in 1..k : q[i] = q[j] => i = j} : k \in 0..n }

NoHub == [kind |-> "none", ip |-> "", port |-> 0]

\* ClustrixMonitor::choose_dynamic_hub over the nodes from the i-th on:
\* the hub and the ips that have been checked
RECURSIVE choose_dynamic_hub(_,_,_,_)
choose_dynamic_hub(nodes, accepts, ips_checked, i) ==
    IF i > Len(nodes) THEN [hub |-> NoHub, ips |-> ips_checked]
    ELSE IF nodes[i] \in accepts
         THEN [hub |-> [kind |-> "dynamic", ip |-> nodes[i].ip,
                        port |-> nodes[i].port],
               ips |-> ips_checked \cup {nodes[i].ip}]
         ELSE choose_dynamic_hub(nodes, accepts,
                                 ips_checked \cup {nodes[i].ip}, i + 1)

\* a choice among the bootstrap servers that tries every server
RECURSIVE choose_bootstrap_hub_trying_all(_,_,_,_)
choose_bootstrap_hub_trying_all(servers, accepts, ips_checked, i) ==
    IF i > Len(servers) THEN NoHub
    ELSE IF servers[i] \in accepts
         THEN [kind |-> "bootstrap", ip |-> servers[i].ip,
               port |-> servers[i].port]
         ELSE choose_bootstrap_hub_trying_all(servers, accepts, ips_checked,
                                              i + 1)

\* ClustrixMonitor::choose_bootstrap_hub over the servers from the i-th on
RECURSIVE choose_bootstrap_hub(_,_,_,_)
choose_bootstrap_hub(servers, accepts, ips_checked, i) ==
    IF i > Len(servers) THEN NoHub
    ELSE IF servers[i].ip \notin ips_checked /\ servers[i] \in accepts
         THEN [kind |-> "bootstrap", ip |-> servers[i].ip,
               port |-> servers[i].port]
         ELSE choose_bootstrap_hub(servers, accepts, ips_checked, i + 1)

\* ClustrixMonitor::refresh_using_persisted_nodes over the rows from the
\* i-th on: whether the nodes were refreshed, and the ips checked
RECURSIVE refresh_using_persisted_nodes(_,_,_,_,_)
refresh_using_persisted_nodes(persisted, accepts, refresh_ok, ips_checked, i) ==
    IF i > Len(persisted) THEN [refreshed |-> FALSE, ips |-> ips_checked]
    ELSE IF persisted[i].ip \in ips_checked
         THEN refresh_using_persisted_nodes(persisted, accepts, refresh_ok,
                                            ips_checked, i + 1)
         ELSE IF persisted[i] \in accepts /\ refresh_ok
              THEN [refreshed |-> TRUE,
                    ips |-> ips_checked \cup {persisted[i].ip}]
              ELSE refresh_using_persisted_nodes(
                       persisted, accepts, refresh_ok,
                       ips_checked \cup {persisted[i].ip}, i + 1)

\* ClustrixMonitor::choose_hub: the hub, and the nodes afterwards
choose_hub(c) ==
    LET dyn == choose_dynamic_hub(c.nodes, c.accepts, {}, 1)
        boot == choose_bootstrap_hub(c.servers, c.accepts, dyn.ips, 1)
        per == refresh_using_persisted_nodes(c.persisted, c.accepts,
                                             c.refresh_ok, dyn.ips, 1)
    IN IF dyn.hub # NoHub THEN [c EXCEPT !.hub = dyn.hub]
       ELSE IF boot # NoHub THEN [c EXCEPT !.hub = boot]
       ELSE IF per.refreshed
            THEN [c EXCEPT !.nodes = c.found, !.refreshed = TRUE,
                           !.hub = choose_dynamic_hub(c.found, c.accepts,
                                                      per.ips, 1).hub]
            ELSE c

\* m_pHub_con is null: the nodes, servers and persisted rows of the monitor
\* and the state of the cluster at a call of choose_hub
InitHub ==
    /\ conn = [d \in Conns |-> NewConn]
    /\ m_dcbs = {}
    /\ m_persistent_entries = <<>>
    /\ m_evicting = FALSE
    /\ m_zombies = <<>>
    /\ n_persistent = 0
    /\ server_running = TRUE
    /\ now = 0
    /\ shared = <<>>
    /\ reader = <<>>
    /\ mon = <<>>
    /\ \E nodes \in EndpointSeqs(MaxHubNodes) :
       \E servers \in EndpointSeqs(MaxHubNodes) \ {<<>>} :
       \E persisted \in EndpointSeqs(MaxPersisted) :
       \E found \in EndpointSeqs(1), accepts \in SUBSET Endpoints :
       \E refresh_ok \in BOOLEAN :
          last_call = [op |-> "none", before |-> nodes,
                       nodes |-> nodes, servers |-> servers,
                       persisted |-> persisted, found |-> found,
                       accepts |-> accepts, refresh_ok |-> refresh_ok,
                       refreshed |-> FALSE, hub |-> NoHub]

\* check_cluster or perform_operation calls choose_hub
ChooseHub ==
    /\ last_call.op = "none"
    /\ last_call' = choose_hub([last_call EXCEPT !.op = "choose_hub"])
    /\ UNCHANGED <<poolvars, shared, reader, mon>>

NextHub == ChooseHub

SpecHub == InitHub /\ [][NextHub]_vars

\* the first address of a sequence that accepts, as a hub of the kind
FirstAccepting(q, accepts, kind) ==
    IF \E i \in 1..Len(q) : q[i] \in accepts
    THEN LET i == CHOOSE k \in 1..Len(q) :
                     q[k] \in accepts /\ \A j \in 1..(k - 1) : q[j] \notin accepts
         IN [kind |-> kind, ip |-> q[i].ip, port |-> q[i].port]
    ELSE NoHub

\* q without the addresses whose ip is in ips
RECURSIVE NotChecked(_,_)
NotChecked(q, ips) ==
    IF q = <<>> THEN <<>>
    ELSE (IF Head(q).ip \in ips THEN <<>> ELSE <<Head(q)>>)
             \o NotChecked(Tail(q), ips)

IpsOf(q) == {q[i].ip : i \in 1..Len(q)}

\* q without the addresses whose ip is that of an earlier address of q
RECURSIVE FirstOfIp(_)
FirstOfIp(q) ==
    IF q = <<>> THEN <<>>
    ELSE <<Head(q)>> \o FirstOfIp(NotChecked(Tail(q), {Head(q).ip}))

\* C35 as stated: the hub is the first dynamic node that accepts; if there
\* is none, the first bootstrap server that accepts; if there is none
\* either and a persisted node accepts and the refresh through it succeeds,
\* the first of the nodes found that accepts; otherwise there is no hub
C35_HubByOrderOfSources ==
    last_call.op = "choose_hub" =>
        LET c == last_call
            dyn == FirstAccepting(c.before, c.accepts, "dynamic")
            boot == FirstAccepting(c.servers, c.accepts, "bootstrap")
            per == FirstAccepting(c.persisted, c.accepts, "persisted")
        IN /\ c.hub # NoHub => [ip |-> c.hub.ip, port |-> c.hub.port] \in c.accepts
           /\ c.hub = IF dyn # NoHub THEN dyn
                      ELSE IF boot # NoHub THEN boot
                      ELSE IF per # NoHub /\ c.refresh_ok
                           THEN FirstAccepting(c.found, c.accepts, "dynamic")
                           ELSE NoHub

\* C35, amended: the same, where the bootstrap servers and the persisted
\* nodes that are tried are those whose ip is not the ip of a dynamic node
\* that has been tried, and of the persisted nodes of one ip only the first
C35_HubByOrderOfSourcesNotTried ==
    last_call.op = "choose_hub" =>
        LET c == last_call
            tried == IpsOf(c.before)
            dyn == FirstAccepting(c.before, c.accepts, "dynamic")
            boot == FirstAccepting(NotChecked(c.servers, tried), c.accepts,
                                   "bootstrap")
            per == FirstAccepting(FirstOfIp(NotChecked(c.persisted, tried)),
                                  c.accepts, "persisted")
        IN /\ c.hub # NoHub => [ip |-> c.hub.ip, port |-> c.hub.port] \in c.accepts
           /\ c.hub = IF dyn # NoHub THEN dyn
                      ELSE IF boot # NoHub THEN boot
                      ELSE IF per # NoHub /\ c.refresh_ok
                           THEN FirstAccepting(c.found, c.accepts, "dynamic")
                           ELSE NoHub

\* no dynamic node and no bootstrap server accepted, the nodes were
\* refreshed through a persisted node and a node found became the hub
C35_Witness ==
    /\ last_call.op = "choose_hub"
    /\ Len(last_call.before) = 2
    /\ last_call.refreshed
    /\ last_call.hub.kind = "dynamic"
    /\ last_call.nodes # last_call.before

----------------------------------------------------------------------------
(* Properties of the monitor's operations and of its health check rounds
   (SpecMon) *)

\* C36: after every SOFTFAIL operation and after every UNSOFTFAIL operation
\* that the monitor has executed a cluster check is required at the next
\* tick
C36_OperationSchedulesClusterCheck ==
    mon.last.op \in {"SOFTFAIL", "UNSOFTFAIL"} => mon.check_required

----------------------------------------------------------------------------
(* The monitor's tick and its health check rounds with several nodes
   (SpecRound).  The variable mon holds the monitor:                       *)
(*   dynamic_node_detection, health_check_threshold   the configuration    *)
(*   m_nodes_by_id   the node map: ip, health port and countdown of each   *)
(*                   node                                                  *)
(*   m_health_urls   the URLs of the nodes, as update_http_urls left them  *)
(*   m_http          the round in flight: its status, the URLs it fetches  *)
(*                   and the ids of the nodes that were at these URLs when *)
(*                   it was launched                                       *)
(*   m_delayed_http_check_id   whether check_http is scheduled             *)
(*   check_required  whether a cluster check has been triggered            *)
(*   last            the last step: at a tick whether a check was required *)
(*                   and whether check_cluster was called; at check_http   *)
(*                   the results applied, the round they were fetched by   *)
(*                   and the node map they were applied to                 *)

NumRoundNodes == 2   \* node ids of the cluster

RoundIds == 1..NumRoundNodes

\* the answers of a hub: the ids in system.membership and the rows of
\* system.nodeinfo, the ip of each node that has one
RoundAnswers ==
    [membership : SUBSET RoundIds,
     nodeinfo : UNION {[S -> HubIps] : S \in SUBSET RoundIds}]

\* the bootstrap servers of the configuration
RoundServers ==
    {q \in UNION {[1..k -> HubIps] : k \in 1..NumRoundNodes} :
        \A i, j \in DOMAIN q : q[i] = q[j] => i = j}

\* the URLs of the nodes in the order of the node map, from id on
RECURSIVE node_urls(_, _)
node_urls(nodes, id) ==
    IF id > NumRoundNodes THEN <<>>
    ELSE IF id \in DOMAIN nodes
         THEN <<[ip |-> nodes[id].m_ip, port |-> nodes[id].m_health_port]>>
                  \o node_urls(nodes, id + 1)
         ELSE node_urls(nodes, id + 1)

\* the ids of the nodes in the order of the node map, from id on
RECURSIVE node_ids(_, _)
node_ids(nodes, id) ==
    IF id > NumRoundNodes THEN <<>>
    ELSE IF id \in DOMAIN nodes
         THEN <<id>> \o node_ids(nodes, id + 1)
         ELSE node_ids(nodes, id + 1)

\* http::Async after reset()
NoRound == [status |-> "READY", urls |-> <<>>, pinged |-> <<>>]

NoStep ==
    [op |-> "none", required |-> FALSE, checked |-> FALSE,
     results |-> <<>>, round |-> NoRound, nodes |-> <<>>]

\* ClustrixMonitor::trigger_cluster_check
trigger_cluster_check(m) == [m EXCEPT !.check_required = TRUE]

\* ClustrixMonitor::cluster_checked
cluster_checked(m) == [m EXCEPT !.check_required = FALSE]

\* ClustrixMonitor::should_check_cluster; due: the time of the periodic
\* check has come
should_check_cluster(m, due) == m.check_required \/ due

\* update_http_urls that leaves the round in flight alone
update_urls_keeping_round(m) ==
    [m EXCEPT !.m_health_urls = node_urls(m.m_nodes_by_id, 1)]

\* ClustrixMonitor::update_http_urls
update_urls(m) ==
    LET urls == node_urls(m.m_nodes_by_id, 1)
    IN IF m.m_health_urls # urls
       THEN [m EXCEPT !.m_delayed_http_check_id = FALSE,
                      !.m_http = NoRound,
                      !.m_health_urls = urls]
       ELSE m

\* a node as ClustrixNode's constructor makes it
round_node(m, ip) ==
    [m_ip |-> ip, m_health_port |-> DEFAULT_HEALTH_PORT,
     m_nRunning |-> m.health_check_threshold]

\* ClustrixMonitor::refresh_nodes as far as the node map, the URLs and the
\* triggered check go; mok, nok: the queries on system.membership and on
\* system.nodeinfo succeed
refresh_node_map(m, answer, mok, nok) ==
    IF ~mok THEN m
    ELSE LET old == m.m_nodes_by_id
             kept == DOMAIN old \cap answer.membership
             rows == DOMAIN answer.nodeinfo
             ids == IF nok THEN kept \cup (rows \cap answer.membership)
                    ELSE kept
             nodes == [id \in ids |->
                          IF id \notin kept THEN round_node(m, answer.nodeinfo[id])
                          ELSE IF ~nok THEN old[id]
                          ELSE IF id \in rows
                          THEN [old[id] EXCEPT !.m_ip = answer.nodeinfo[id]]
                          ELSE [old[id] EXCEPT !.m_nRunning = 0]]
             m1 == [m EXCEPT !.m_nodes_by_id = nodes]
         IN update_urls(IF nok THEN cluster_checked(m1) ELSE m1)

\* ClustrixMonitor::check_cluster; hub_ok: there is a hub that can be used
\* or choose_hub finds one
check_cluster(m, hub_ok, answer, mok, nok) ==
    IF hub_ok THEN refresh_node_map(m, answer, mok, nok) ELSE m

\* ClustrixMonitor::populate_from_bootstrap_servers
populate_from_bootstrap_servers(m, servers) ==
    update_urls([m EXCEPT !.m_nodes_by_id =
                              [id \in DOMAIN servers |-> round_node(m, servers[id])]])

\* ClustrixMonitor::make_health_check; status is what get_async returns
launch_round(m, status) ==
    [m EXCEPT !.m_http = [status |-> status, urls |-> m.m_health_urls,
                          pinged |-> node_ids(m.m_nodes_by_id, 1)],
              !.m_delayed_http_check_id = (status = "PENDING")]

\* the position of node id in the node map
position(nodes, id) == Cardinality({other \in DOMAIN nodes : other <= id})

\* the countdowns after results[i] has been applied to the i-th node, for
\* every result there is
counted_down(m, results) ==
    [id \in DOMAIN m.m_nodes_by_id |->
        LET node == m.m_nodes_by_id[id]
            i == position(m.m_nodes_by_id, id)
        IN IF i \notin DOMAIN results THEN node
           ELSE [node EXCEPT !.m_nRunning =
                    IF results[i] THEN m.health_check_threshold
                    ELSE IF node.m_nRunning > 0 THEN node.m_nRunning - 1
                    ELSE 0]]

\* check_http that triggers no cluster check
ping_results_untriggered(m, results) ==
    [m EXCEPT !.m_nodes_by_id = counted_down(m, results)]

\* check_http, the loop over the results: results[i] is applied to the
\* i-th node of the node map
ping_results(m, results) ==
    LET nodes == counted_down(m, results)
        m1 == [m EXCEPT !.m_nodes_by_id = nodes]
    IN IF \E id \in DOMAIN nodes :
             /\ position(nodes, id) \in DOMAIN results
             /\ ~results[position(nodes, id)]
             /\ nodes[id].m_nRunning = 0
       THEN trigger_cluster_check(m1)
       ELSE m1

\* ClustrixMonitor::check_http(Call::EXECUTE); status is what
\* m_http.perform() returns, results[i] whether the i-th URL answered 200
check_http(m, status, results) ==
    LET m0 == [m EXCEPT !.m_delayed_http_check_id = (status = "PENDING"),
                        !.m_http.status = status,
                        !.last = [NoStep EXCEPT
                                     !.op = "check_http",
                                     !.results = IF status = "READY"
                                                 THEN results ELSE <<>>,
                                     !.round = m.m_http,
                                     !.nodes = m.m_nodes_by_id]]
    IN IF status = "READY" THEN ping_results(m0, results) ELSE m0

\* ClustrixMonitor::tick
tick(m, due, hub_ok, answer, mok, nok, status) ==
    LET check == m.dynamic_node_detection /\ should_check_cluster(m, due)
        m0 == [m EXCEPT !.last = [NoStep EXCEPT
                                     !.op = "tick",
                                     !.required = m.check_required,
                                     !.checked = check]]
        m1 == IF check
              THEN check_cluster(m0, hub_ok, answer, mok, nok)
              ELSE m0
    IN IF m1.m_http.status = "PENDING" THEN m1 ELSE launch_round(m1, status)

\* the monitor as constructed and configured
InitRound ==
    /\ conn = [d \in Conns |-> NewConn]
    /\ m_dcbs = {}
    /\ m_persistent_entries = <<>>
    /\ m_evicting = FALSE
    /\ m_zombies = <<>>
    /\ n_persistent = 0
    /\ server_running = TRUE
    /\ now = 0
    /\ last_call = NoCall
    /\ shared = <<>>
    /\ reader = <<>>
    /\ \E detection \in BOOLEAN : \E threshold \in 1..MaxThreshold :
          mon = [dynamic_node_detection |-> detection,
                 health_check_threshold |-> threshold,
                 m_nodes_by_id |-> <<>>,
                 m_health_urls |-> <<>>,
                 m_http |-> NoRound,
                 m_delayed_http_check_id |-> FALSE,
                 check_required |-> FALSE,
                 last |-> NoStep]

\* the inputs of a cluster check: mok and nok need a hub and nok needs mok;
\* the answer to a query that fails is left empty
CheckInputs ==
    {c \in [hub_ok : BOOLEAN, answer : RoundAnswers,
            mok : BOOLEAN, nok : BOOLEAN] :
        /\ c.mok => c.hub_ok
        /\ c.nok => c.mok
        /\ ~c.mok => c.answer.membership = {}
        /\ ~c.nok => DOMAIN c.answer.nodeinfo = {}}

\* ClustrixMonitor::pre_loop
PreLoop ==
    /\ mon.last.op = "none"
    /\ \E c \in CheckInputs : \E servers \in RoundServers :
       \E status \in {"PENDING", "READY", "ERROR"} :
          LET m == [mon EXCEPT !.last = [NoStep EXCEPT !.op = "pre_loop"]]
              m1 == IF mon.dynamic_node_detection
                    THEN check_cluster(m, c.hub_ok, c.answer, c.mok, c.nok)
                    ELSE populate_from_bootstrap_servers(m, servers)
          IN mon' = launch_round(m1, status)
    /\ UNCHANGED <<poolvars, last_call, shared, reader>>

\* ClustrixMonitor::tick, called by the monitor's loop
MonitorTick ==
    /\ mon.last.op # "none"
    /\ \E c \in CheckInputs : \E due \in BOOLEAN :
       \E status \in {"PENDING", "READY", "ERROR"} :
          mon' = tick(mon, due, c.hub_ok, c.answer, c.mok, c.nok, status)
    /\ UNCHANGED <<poolvars, last_call, shared, reader>>

\* the delayed call of check_http
DelayedCheckHttp ==
    /\ mon.m_delayed_http_check_id
    /\ \E status \in {"PENDING", "READY", "ERROR"} :
       \E results \in [1..Len(mon.m_http.urls) -> BOOLEAN] :
          mon' = check_http(mon, status, results)
    /\ UNCHANGED <<poolvars, last_call, shared, reader>>

\* perform_softfail or perform_unsoftfail, called on the monitor's thread
\* between two ticks; c.hub_ok: there was no hub and choose_hub finds one
QueuedOperation ==
    /\ mon.last.op # "none"
    /\ \E operation \in {"SOFTFAIL", "UNSOFTFAIL"} : \E c \in CheckInputs :
          LET m == [mon EXCEPT !.last = [NoStep EXCEPT !.op = operation]]
              m1 == check_cluster(m, c.hub_ok, c.answer, c.mok, c.nok)
          IN mon' = IF operation = "SOFTFAIL"
                    THEN trigger_cluster_check(m1)
                    ELSE m1
    /\ UNCHANGED <<poolvars, last_call, shared, reader>>

NextRound == PreLoop \/ MonitorTick \/ DelayedCheckHttp \/ QueuedOperation

SpecRound == InitRound /\ [][NextRound]_vars

\* a failed ping has just been recorded for a node whose countdown was 0
\* or has reached 0 by it
DownPingRecorded ==
    /\ mon.last.op = "check_http"
    /\ \E id \in DOMAIN mon.m_nodes_by_id :
          /\ position(mon.m_nodes_by_id, id) \in DOMAIN mon.last.results
          /\ ~mon.last.results[position(mon.m_nodes_by_id, id)]
          /\ mon.m_nodes_by_id[id].m_nRunning = 0

\* C37 as stated: a failed ping on a node whose countdown is or becomes 0
\* triggers a cluster check, and the tick that finds a check triggered
\* performs the cluster check
C37_DownPingChecksClusterAtTick ==
    /\ DownPingRecorded => mon.check_required
    /\ (mon.last.op = "tick" /\ mon.last.required) => mon.last.checked

\* C37: a failed ping on a node whose countdown is or becomes 0 triggers a
\* cluster check, and with dynamic node detection enabled the tick that
\* finds a check triggered calls check_cluster
C37_DownPingChecksClusterIfDetecting ==
    /\ DownPingRecorded => mon.check_required
    /\ (/\ mon.last.op = "tick"
        /\ mon.last.required
        /\ mon.dynamic_node_detection) => mon.last.checked

\* the tick after a failed ping on a node that is down has checked the
\* cluster
C37_Witness ==
    /\ mon.last.op = "tick"
    /\ mon.last.required
    /\ mon.last.checked
    /\ \E id \in DOMAIN mon.m_nodes_by_id : mon.m_nodes_by_id[id].m_nRunning = 0

\* results of a round have just been applied to the nodes
ResultsApplied == mon.last.op = "check_http" /\ mon.last.results # <<>>

\* C39 as stated: when the results of a round are applied the i-th result
\* was fetched from the URL of the i-th node of the node map, and the node
\* map has the nodes it had when the round was launched, in the same order
C39_ResultsAppliedToPingedNodes ==
    ResultsApplied =>
        /\ Len(mon.last.results) = Len(node_ids(mon.last.nodes, 1))
        /\ mon.last.round.urls = node_urls(mon.last.nodes, 1)
        /\ mon.last.round.pinged = node_ids(mon.last.nodes, 1)

\* C39: when the results of a round are applied there are as many results
\* as nodes and the i-th result was fetched from the URL of the i-th node
\* of the node map
C39_ResultsAppliedToPingedUrls ==
    ResultsApplied =>
        /\ Len(mon.last.results) = Len(node_ids(mon.last.nodes, 1))
        /\ mon.last.round.urls = node_urls(mon.last.nodes, 1)

\* results are applied after a node has taken the place of another at the
\* same URL since the round was launched
C39_Witness ==
    /\ ResultsApplied
    /\ mon.last.round.pinged # node_ids(mon.last.nodes, 1)
    /\ mon.last.round.urls = node_urls(mon.last.nodes, 1)

----------------------------------------------------------------------------
(* Specification SpecRace: the status of one server, written by the        *)
(* monitor thread and by the main thread.  Server::set_status is           *)
(* 'm_status |= bit' and Server::clear_status is 'm_status &= ~bit' on a   *)
(* plain uint64_t, with no lock held: each is a load of m_status followed  *)
(* by a store, and the steps of the two threads interleave.  mon holds     *)
(*   m_status   the status of the server                                   *)
(*   threads    of each thread the call it is in, if any, with its bits    *)
(*              and the value it has loaded                                *)
(*   applied    the status that results from the calls completed so far,   *)
(*              each applied as a whole at its completion                  *)

Threads == {"monitor", "main"}

\* the bits each thread writes: the monitor thread RUNNING|MASTER and
\* DRAINING of its nodes, the main thread MAINT
ThreadBits ==
    [monitor |-> {RunningBits, DrainingBits}, main |-> {{"SERVER_MAINT"}}]

Outside == [op |-> "none", bits |-> {}, loaded |-> {}]

\* a new server, no thread in a call
InitRace ==
    /\ conn = [d \in Conns |-> NewConn]
    /\ m_dcbs = {}
    /\ m_persistent_entries = <<>>
    /\ m_evicting = FALSE
    /\ m_zombies = <<>>
    /\ n_persistent = 0
    /\ server_running = TRUE
    /\ now = 0
    /\ last_call = NoCall
    /\ shared = <<>>
    /\ reader = <<>>
    /\ mon = [m_status |-> {},
              threads |-> [t \in Threads |-> Outside],
              applied |-> {}]

\* the value that set_status or clear_status stores
stored(call) ==
    IF call.op = "set_status" THEN call.loaded \cup call.bits
    ELSE call.loaded \ call.bits

\* thread t enters set_status or clear_status and loads m_status
LoadStatus(t) ==
    /\ mon.threads[t].op = "none"
    /\ \E op \in {"set_status", "clear_status"} : \E bits \in ThreadBits[t] :
          mon' = [mon EXCEPT !.threads[t] =
                      [op |-> op, bits |-> bits, loaded |-> mon.m_status]]
    /\ UNCHANGED <<poolvars, last_call, shared, reader>>

\* thread t stores the value it has computed and returns
StoreStatus(t) ==
    /\ mon.threads[t].op # "none"
    /\ LET call == mon.threads[t]
       IN mon' = [mon EXCEPT
                     !.m_status = stored(call),
                     !.applied = stored([call EXCEPT !.loaded = mon.applied]),
                     !.threads[t] = Outside]
    /\ UNCHANGED <<poolvars, last_call, shared, reader>>

NextRace == \E t \in Threads : LoadStatus(t) \/ StoreStatus(t)

SpecRace == InitRace /\ [][NextRace]_vars

\* C38: updates of the status of a server by different threads are not
\* lost: when no thread is inside set_status or clear_status every bit has
\* the value that the last call completed on it gave it
C38_ConcurrentUpdatesNotLost ==
    (\A t \in Threads : mon.threads[t].op = "none") =>
        mon.m_status = mon.applied

----------------------------------------------------------------------------
(* Specification SpecOps: the monitor with its cluster checks and the      *)
(* module commands softfail and unsoftfail.  mon is the monitor as in      *)
(* SpecMon; last_call holds the last command: the operation, whether the   *)
(* monitor was running and what the command has returned.                  *)

\* ClustrixMonitor::perform_softfail and ClustrixMonitor::perform_unsoftfail
perform(m, operation, id, has_hub, hub_ok, mok, nok, qok) ==
    LET m1 == perform_operation(m, operation, id, has_hub, hub_ok, mok, nok, qok)
    IN IF operation = "SOFTFAIL"
       THEN [m1 EXCEPT !.check_required = TRUE]
       ELSE m1

\* ClustrixMonitor::softfail and ClustrixMonitor::unsoftfail; running is
\* what is_running() returns.  rv is the value returned to the caller.
softfail(m, operation, id, running, has_hub, hub_ok, mok, nok, qok) ==
    [m |-> IF running
           THEN perform(m, operation, id, has_hub, hub_ok, mok, nok, qok)
           ELSE m,
     rv |-> TRUE]

\* the module command softfail or unsoftfail for a server that exists
Softfail ==
    /\ \E operation \in {"SOFTFAIL", "UNSOFTFAIL"} :
       \E id \in DOMAIN mon.servers :
       \E running \in BOOLEAN :
       \E has_hub \in BOOLEAN, hub_ok \in BOOLEAN, qok \in BOOLEAN :
       \E mok \in BOOLEAN, nok \in BOOLEAN :
          /\ hub_ok => ~has_hub      \* choose_hub runs only without a hub
          /\ mok => hub_ok           \* refresh_nodes runs only with a new hub
          /\ nok => mok
          /\ qok => has_hub \/ hub_ok
          /\ LET r == softfail(mon, operation, id, running,
                               has_hub, hub_ok, mok, nok, qok)
             IN /\ mon' = r.m
                /\ last_call' = [op |-> operation, running |-> running,
                                 target |-> id, result |-> r.rv]
    /\ UNCHANGED <<poolvars, shared, reader>>

NextOps == HubChanges \/ CheckCluster \/ Softfail

SpecOps == InitMon /\ [][NextOps]_vars

\* C40: softfail and unsoftfail return true only if the monitor was running
\* and ALTER CLUSTER was executed on the hub for the node of the server;
\* they return false when the monitor is not running, when there is no hub,
\* when the server is not the server of a node and when the statement fails
C40_SuccessOnlyIfAltered ==
    last_call.op \in {"SOFTFAIL", "UNSOFTFAIL"} =>
        (last_call.result <=>
            /\ last_call.running
            /\ mon.last.op = last_call.op
            /\ mon.last.target = last_call.target
            /\ mon.last.altered)

====
